---- MODULE Spec2Model ----
(***************************************************************************)
(* Virtual-transaction engine of the Vault MCP server (VaultClient).       *)
(* One commit-mode call of executeTransaction is modelled step by step:    *)
(* rollback planning (one step per operation), forward execution (one      *)
(* step per operation), LIFO rollback (one step per committed operation)   *)
(* and the construction of the returned TransactionResult.  The remote     *)
(* store is a map from path to KV-v2 body; every call that reaches the     *)
(* store may fail with a transport error.                                  *)
(*                                                                         *)
(* Further specifications cover the other entry points of the client:      *)
(* SpecCalls (every call that takes dryRun, with dryRun set: the dry run   *)
(* of a transaction, writeSecret, deleteSecret, bulk write and delete),    *)
(* SpecBulk (the three best-effort bulk calls, one step per item, dryRun   *)
(* either way), SpecSimulateThenExecute (a dry run followed by the         *)
(* commit of the same batch against the same store), SpecTwoCallers (one   *)
(* call run alone, a bulk call on another path run alone, then both        *)
(* interleaved from the same initial store), SpecPayloads (the dry run of  *)
(* batches whose Create and Update may lack a valid payload),              *)
(* SpecTwoDryRuns (two dry runs of the same batch with their reads         *)
(* interleaved), SpecTwoTransactions (two commit-mode calls on one path    *)
(* with their store calls interleaved) and SpecLive (one commit-mode call  *)
(* under weak fairness of its steps).                                      *)
(***************************************************************************)
EXTENDS Integers, Sequences, FiniteSets, TLC

\* ---- bounds -------------------------------------------------------------
MaxOps == 3
MaxFaults == 1

\* ---- values -------------------------------------------------------------
Undefined == "undefined"
\* what the store answers for a path that holds nothing (HTTP 404)
NotFound == [found |-> FALSE, data |-> "undefined"]
EmptyObject == "{}"

K1 == <<"secret", "k1">>
K2 == <<"secret", "k2">>
K3 == <<"secret", "k3">>
SysInvalid == <<"sys", "invalid">>
\* every path of the store, and the paths the operations of a batch name
AllPaths == {K1, K2, K3, SysInvalid}
Paths == {K1, K2, SysInvalid}

OldPayloads == {"old"}
NewPayloads == {"new"}

\* config.allowedPaths: the prefixes a path may start with
allowedPaths == << <<"secret">> >>

\* KV-v2 body of a write: client.write(path, { data })
Wrap(data) == [found |-> TRUE, data |-> data]

\* result.data?.data || result.data || {}
Unwrap(body) == IF body.data # Undefined THEN body.data ELSE EmptyObject

\* The operations of a batch.  On the rejected path every operation type is
\* refused by the same path check of the forward loop; only Delete differs
\* (its planning read throws), so Create and Delete stand for the four.
TransactionOperation ==
    [type : {"create", "update"}, path : {K1, K2}, data : NewPayloads]
    \cup [type : {"delete", "read"}, path : {K1, K2}, data : {Undefined}]
    \cup [type : {"create"}, path : {SysInvalid}, data : NewPayloads]
    \cup [type : {"delete"}, path : {SysInvalid}, data : {Undefined}]

\* K1 and K2 are interchangeable (both allowed, both with any initial
\* content), so a batch names K1 before it names K2.
FirstUseOrder(batch) ==
    \A j \in 1..Len(batch) :
        batch[j].path = K2 => \E k \in 1..(j - 1) : batch[k].path = K1

Batches ==
    {batch \in UNION {[1..n -> TransactionOperation] : n \in 0..MaxOps} :
        FirstUseOrder(batch)}

\* Pre-transaction stores.  A path no operation can reach (not allowed, or
\* named by no operation of the batches) starts empty.
StoreStates ==
    {s \in [AllPaths -> {NotFound} \cup {Wrap(d) : d \in OldPayloads}] :
        \A p \in AllPaths : (p \notin Paths \/ p = SysInvalid) => s[p] = NotFound}

\* ---- error messages -----------------------------------------------------
ReadNotPermitted == "Read operations are not permitted"
WriteNotPermitted == "Write operations are not permitted"
PathNotAllowed == "Access to path is not allowed"
StoreError == "store error"
NoError == "no error"
StoreNotFound == "Status 404"

VARIABLES
    store,               \* remote key-value store: path -> body or NotFound
    store0,              \* the store as it was when the call started
    permRead,            \* config.permissions.read
    permWrite,           \* config.permissions.write
    ops,                 \* the submitted operations
    pc,                  \* "plan", "forward", "rollback", "done"
    planned,             \* rollback operation of each planned operation
    i,                   \* forward loop index (1-based)
    results,             \* results[] of executeTransactionInternal
    completedOperations, \* indices of the committed operations, in commit order
    rbIdx,               \* executeRollback loop index (1-based)
    failMode,            \* "none", "inner" (inner catch) or "fatal" (outer catch)
    ret,                 \* what the call returned or threw
    calls,               \* every call issued to the store, in order
    rbLog,               \* every rollback step processed, in order
    faults,              \* transport errors injected so far
    entry,               \* the entry point of VaultClient that was called
    dryRun,              \* the dryRun argument of the call
    simulatedState,      \* executeTransactionDryRun: path -> last predicted change
    validationErrors,    \* executeTransactionDryRun: {path, errors} entries
    dryRet,              \* what the dry-run call returned
    succeededItems,      \* bulk calls: the count of items that succeeded
    stage,               \* "single" call, or "alone", "otherAlone", "together"
    other,               \* the call of a second caller, with its own locals
    alone                \* what each of the two calls did when it ran alone

\* the variables a commit-mode transaction never touches
dryVars == <<entry, dryRun, simulatedState, validationErrors, dryRet,
            succeededItems, stage, other, alone>>

\* the variables a call of the first caller never touches
callerVars == <<stage, other, alone>>

vars == <<store, store0, permRead, permWrite, ops, pc, planned, i, results,
          completedOperations, rbIdx, failMode, ret, calls, rbLog, faults,
          entry, dryRun, simulatedState, validationErrors, dryRet,
          succeededItems, stage, other, alone>>

\* ---- helpers ------------------------------------------------------------
startsWith(path, prefix) ==
    /\ Len(prefix) <= Len(path)
    /\ SubSeq(path, 1, Len(prefix)) = prefix

isPathAllowedAlways(path) == TRUE

isPathAllowed(path) ==
    \/ Len(allowedPaths) = 0
    \/ \E k \in 1..Len(allowedPaths) : startsWith(path, allowedPaths[k])

\* VaultClient.readSecret: permission check, path check, then client.read;
\* a 404 becomes null, any other store error is rethrown.
readSecret(path, fault) ==
    IF ~permRead THEN [kind |-> "throw", error |-> ReadNotPermitted,
                       data |-> Undefined, called |-> FALSE]
    ELSE IF ~isPathAllowed(path)
    THEN [kind |-> "throw", error |-> PathNotAllowed,
          data |-> Undefined, called |-> FALSE]
    ELSE IF fault THEN [kind |-> "throw", error |-> StoreError,
                        data |-> Undefined, called |-> TRUE]
    ELSE IF store[path] = NotFound
    THEN [kind |-> "null", error |-> NoError,
          data |-> Undefined, called |-> TRUE]
    ELSE [kind |-> "secret", error |-> NoError,
          data |-> Unwrap(store[path]), called |-> TRUE]

NoRollback == [type |-> "none", path |-> <<>>, originalData |-> Undefined]

calculateRollbackOperationNoThrow(operation, rd) ==
    IF rd.kind = "throw" /\ operation.type = "delete"
    THEN [kind |-> "throw", rollback |-> NoRollback]
    ELSE [kind |-> "ok",
          rollback |-> [type |-> CASE operation.type = "create" -> "delete"
                                   [] operation.type = "update" -> "update"
                                   [] operation.type = "delete" -> "create"
                                   [] operation.type = "read" -> "read",
                        path |-> operation.path,
                        originalData |->
                            IF operation.type \in {"create", "read"}
                            THEN Undefined
                            ELSE IF rd.kind = "secret" THEN rd.data
                            ELSE EmptyObject]]

calculateRollbackOperationNothingToRestore(operation, rd) ==
    CASE operation.type = "create" ->
            [kind |-> "ok",
             rollback |-> [type |-> "delete", path |-> operation.path,
                           originalData |-> Undefined]]
      [] operation.type = "update" ->
            IF rd.kind = "throw"
            THEN [kind |-> "ok",
                  rollback |-> [type |-> "delete", path |-> operation.path,
                                originalData |-> Undefined]]
            ELSE [kind |-> "ok",
                  rollback |-> [type |-> "update", path |-> operation.path,
                                originalData |->
                                    IF rd.kind = "secret" THEN rd.data
                                    ELSE Undefined]]
      [] operation.type = "delete" ->
            IF rd.kind = "secret"
            THEN [kind |-> "ok",
                  rollback |-> [type |-> "create", path |-> operation.path,
                                originalData |-> rd.data]]
            ELSE [kind |-> "throw", rollback |-> NoRollback]
      [] operation.type = "read" ->
            [kind |-> "ok",
             rollback |-> [type |-> "read", path |-> operation.path,
                           originalData |-> Undefined]]

\* VaultClient.calculateRollbackOperation, given the outcome rd of its
\* readSecret call (used by update and delete only).
calculateRollbackOperation(operation, rd) ==
    CASE operation.type = "create" ->
            [kind |-> "ok",
             rollback |-> [type |-> "delete", path |-> operation.path,
                           originalData |-> Undefined]]
      [] operation.type = "update" ->
            IF rd.kind = "throw"
            THEN [kind |-> "ok",
                  rollback |-> [type |-> "delete", path |-> operation.path,
                                originalData |-> Undefined]]
            ELSE [kind |-> "ok",
                  rollback |-> [type |-> "update", path |-> operation.path,
                                originalData |->
                                    IF rd.kind = "secret" THEN rd.data
                                    ELSE EmptyObject]]
      [] operation.type = "delete" ->
            IF rd.kind = "secret"
            THEN [kind |-> "ok",
                  rollback |-> [type |-> "create", path |-> operation.path,
                                originalData |-> rd.data]]
            ELSE [kind |-> "throw", rollback |-> NoRollback]
      [] operation.type = "read" ->
            [kind |-> "ok",
             rollback |-> [type |-> "read", path |-> operation.path,
                           originalData |-> Undefined]]

Call(kind, path, data, phase, idx, ok) ==
    [kind |-> kind, path |-> path, data |-> data, phase |-> phase,
     idx |-> idx, ok |-> ok]

NoSummary == [total |-> 0, succeeded |-> 0, failed |-> 0, rolledBack |-> 0]
NoReturn == [kind |-> "none", success |-> FALSE, summary |-> NoSummary]

\* new Map(): no path has an entry
NoStateInfo == [operation |-> "none", data |-> Undefined]
NoSimulatedState == [p \in AllPaths |-> NoStateInfo]
NoDryRunReturn == [kind |-> "none"]

\* no second caller, nothing recorded
NoOther == [entry |-> "none", items |-> <<>>, i |-> 1, results |-> <<>>,
            succeeded |-> 0, pc |-> "done", ret |-> NoReturn]
NoAlone == [ret |-> NoReturn, dryRet |-> NoDryRunReturn, results |-> <<>>,
            store |-> [p \in AllPaths |-> NotFound],
            otherRet |-> NoReturn, otherResults |-> <<>>,
            otherStore |-> [p \in AllPaths |-> NotFound]]

\* ---- initial state ------------------------------------------------------
Init ==
    /\ store \in StoreStates
    /\ store0 = store
    /\ permRead \in BOOLEAN
    /\ permWrite \in BOOLEAN
    /\ ops \in Batches
    /\ pc = "plan"
    /\ planned = <<>>
    /\ i = 1
    /\ results = <<>>
    /\ completedOperations = <<>>
    /\ rbIdx = 0
    /\ failMode = "none"
    /\ ret = NoReturn
    /\ calls = <<>>
    /\ rbLog = <<>>
    /\ faults = 0
    /\ entry = "executeTransaction"
    /\ dryRun = FALSE
    /\ simulatedState = NoSimulatedState
    /\ validationErrors = <<>>
    /\ dryRet = NoDryRunReturn
    /\ succeededItems = 0
    /\ stage = "single"
    /\ other = NoOther
    /\ alone = NoAlone

\* ---- rollback planning --------------------------------------------------
\* One iteration of the loop of prepareTransactionOperations.
PlanStep ==
    /\ pc = "plan"
    /\ Len(planned) < Len(ops)
    /\ \E fault \in BOOLEAN :
        LET idx == Len(planned) + 1
            operation == ops[idx]
            reads == operation.type \in {"update", "delete"}
            rd == readSecret(operation.path, fault)
            rb == calculateRollbackOperation(operation, rd)
        IN  /\ fault => (reads /\ rd.called /\ faults < MaxFaults)
            /\ faults' = IF fault THEN faults + 1 ELSE faults
            /\ calls' = IF reads /\ rd.called
                        THEN Append(calls, Call("read", operation.path,
                                    Undefined, "plan", idx, rd.kind # "throw"))
                        ELSE calls
            /\ IF rb.kind = "throw"
               THEN /\ pc' = "done"
                    /\ ret' = [kind |-> "throw", success |-> FALSE,
                               summary |-> NoSummary]
                    /\ planned' = planned
               ELSE /\ planned' = Append(planned, rb.rollback)
                    /\ UNCHANGED <<pc, ret>>
    /\ UNCHANGED <<store, store0, permRead, permWrite, ops, i, results,
                   completedOperations, rbIdx, failMode, rbLog>>
    /\ UNCHANGED dryVars

PlanningCompleteAfterFirst(n, total) == n >= 1 \/ total = 0

PlanningCompleteNever(n, total) == FALSE

\* prepareTransactionOperations returns once its loop has planned every
\* operation of the batch (n of total).
PlanningComplete(n, total) == n = total

\* executeTransaction hands the planned operations to
\* executeTransactionInternal.
BeginInternal ==
    /\ pc = "plan"
    /\ PlanningComplete(Len(planned), Len(ops))
    /\ pc' = "forward"
    /\ UNCHANGED <<store, store0, permRead, permWrite, ops, planned, i,
                   results, completedOperations, rbIdx, failMode, ret, calls,
                   rbLog, faults>>
    /\ UNCHANGED dryVars

\* ---- forward execution ---------------------------------------------------
StoreCallOfCreateSkipped(type) ==
    CASE type = "update" -> "write"
      [] type = "delete" -> "delete"
      [] type \in {"read", "create"} -> "read"

StoreCallOf(type) ==
    CASE type \in {"create", "update"} -> "write"
      [] type = "delete" -> "delete"
      [] type = "read" -> "read"

ApplyCallWriteEmpty(st, kind, path, data) ==
    CASE kind = "write" -> [st EXCEPT ![path] = Wrap(EmptyObject)]
      [] kind = "delete" -> [st EXCEPT ![path] = NotFound]
      [] kind = "read" -> st

ApplyCallWholeStore(st, kind, path, data) ==
    CASE kind = "write" ->
            [p \in DOMAIN st |-> IF p = path THEN Wrap(data) ELSE NotFound]
      [] kind = "delete" -> [p \in DOMAIN st |-> NotFound]
      [] kind = "read" -> st

\* Effect of a successful store call on the store.
ApplyCall(st, kind, path, data) ==
    CASE kind = "write" -> [st EXCEPT ![path] = Wrap(data)]
      [] kind = "delete" -> [st EXCEPT ![path] = NotFound]
      [] kind = "read" -> st

NextAfterForwardContinue(ok, k) == [pc |-> "forward", i |-> k + 1]

\* Control after one forward operation: the loop goes on to the next
\* operation on success; on failure forward execution stops and the
\* rollback begins.
NextAfterForward(ok, k) ==
    IF ok THEN [pc |-> "forward", i |-> k + 1]
    ELSE [pc |-> "rollback", i |-> k]

Result(path, success, error) ==
    [path |-> path, success |-> success, error |-> error,
     rollbackExecuted |-> Undefined]

\* One iteration of the forward loop of executeTransactionInternal.
ForwardStep ==
    /\ pc = "forward"
    /\ i <= Len(ops)
    /\ \E fault \in BOOLEAN :
        LET forward == ops[i]
            allowed == isPathAllowed(forward.path)
            permitted == IF forward.type = "read" THEN permRead ELSE permWrite
            callsStore == allowed /\ permitted
            missing == forward.type = "read" /\ store[forward.path] = NotFound
            ok == callsStore /\ ~fault /\ ~missing
            kind == StoreCallOf(forward.type)
            error == IF ~permitted
                     THEN (IF forward.type = "read" THEN ReadNotPermitted
                           ELSE WriteNotPermitted)
                     ELSE IF fault THEN StoreError ELSE StoreNotFound
        IN  /\ fault => (callsStore /\ faults < MaxFaults)
            /\ faults' = IF fault THEN faults + 1 ELSE faults
            /\ calls' = IF callsStore
                        THEN Append(calls, Call(kind, forward.path,
                                    forward.data, "forward", i, ok))
                        ELSE calls
            /\ store' = IF ok
                        THEN ApplyCall(store, kind, forward.path, forward.data)
                        ELSE store
            /\ IF ~allowed
               THEN \* thrown outside the inner try: caught by the outer catch
                    /\ pc' = "rollback"
                    /\ failMode' = "fatal"
                    /\ rbIdx' = Len(completedOperations)
                    /\ UNCHANGED <<i, results, completedOperations>>
               ELSE IF ok
               THEN /\ results' = Append(results,
                                     Result(forward.path, TRUE, <<>>))
                    /\ completedOperations' = Append(completedOperations, i)
                    /\ i' = NextAfterForward(TRUE, i).i
                    /\ pc' = NextAfterForward(TRUE, i).pc
                    /\ UNCHANGED <<failMode, rbIdx>>
               ELSE /\ results' = Append(results,
                                     Result(forward.path, FALSE, <<error>>))
                    /\ i' = NextAfterForward(FALSE, i).i
                    /\ pc' = NextAfterForward(FALSE, i).pc
                    /\ failMode' = IF NextAfterForward(FALSE, i).pc = "rollback"
                                   THEN "inner" ELSE failMode
                    /\ rbIdx' = Len(completedOperations)
                    /\ UNCHANGED completedOperations
    /\ UNCHANGED <<store0, permRead, permWrite, ops, planned, ret, rbLog>>
    /\ UNCHANGED dryVars

SummaryRolledBackCountsOk(total, succeeded, failed, rolledBack) ==
    [total |-> total, succeeded |-> succeeded, failed |-> failed,
     rolledBack |-> Cardinality({k \in 1..Len(rbLog) : rbLog[k].ok})]

SummaryRolledBackFromSucceeded(total, succeeded, failed, rolledBack) ==
    [total |-> total, succeeded |-> succeeded, failed |-> failed,
     rolledBack |-> succeeded]

Summary(total, succeeded, failed, rolledBack) ==
    [total |-> total, succeeded |-> succeeded, failed |-> failed,
     rolledBack |-> rolledBack]

\* Every forward operation succeeded: the success return.
CommitAll ==
    /\ pc = "forward"
    /\ i > Len(ops)
    /\ pc' = "done"
    /\ ret' = [kind |-> "result", success |-> TRUE,
               summary |-> Summary(Len(ops), Len(ops), 0, 0)]
    /\ UNCHANGED <<store, store0, permRead, permWrite, ops, planned, i,
                   results, completedOperations, rbIdx, failMode, calls,
                   rbLog, faults>>
    /\ UNCHANGED dryVars

\* ---- rollback -----------------------------------------------------------
\* Array.prototype.findIndex on the path; 0 stands for -1 (not found).
findIndex(rs, path) ==
    IF \E k \in 1..Len(rs) : rs[k].path = path
    THEN CHOOSE k \in 1..Len(rs) :
            /\ rs[k].path = path
            /\ \A m \in 1..(k - 1) : rs[m].path # path
    ELSE 0

RollbackFailed == "Rollback failed"

RollbackEntryFIFO(completed, j) == completed[Len(completed) - j + 1]

RollbackEntryLatest(completed, j) == completed[Len(completed)]

\* The committed entry the rollback loop handles when its index is j
\* (j runs from the number of committed operations down to 1).
RollbackEntry(completed, j) == completed[j]

AfterRollbackStepAbort(j, ok) == IF ok THEN j - 1 ELSE 0

\* The loop index after a rollback step: the step's failure is caught
\* inside the loop body, so the loop always goes on to the older entry.
AfterRollbackStep(j, ok) == j - 1

MarkRollback(rs, path, ok, error) ==
    LET resultIndex == findIndex(rs, path)
    IN  IF resultIndex = 0 THEN rs
        ELSE IF ok
        THEN [rs EXCEPT ![resultIndex].rollbackExecuted = "true"]
        ELSE [rs EXCEPT ![resultIndex].rollbackExecuted = "false",
                        ![resultIndex].error =
                            (IF @ = <<>> THEN <<Undefined>> ELSE @)
                            \o <<RollbackFailed, error>>]

\* One iteration of the loop of executeRollback.
RollbackStep ==
    /\ pc = "rollback"
    /\ rbIdx >= 1
    /\ \E fault \in BOOLEAN :
        LET idx == RollbackEntry(completedOperations, rbIdx)
            rollback == planned[idx]
            hasOriginal == rollback.originalData # Undefined
            viaDeleteSecret ==
                \/ rollback.type = "delete"
                \/ (rollback.type = "update" /\ ~hasOriginal)
            viaWrite == rollback.type \in {"update", "create"} /\ hasOriginal
            checked == permWrite /\ isPathAllowed(rollback.path)
            callsStore == viaWrite \/ (viaDeleteSecret /\ checked)
            ok == ~fault /\ (viaDeleteSecret => checked)
            kind == IF viaWrite THEN "write" ELSE "delete"
            error == IF fault THEN StoreError
                     ELSE IF ~permWrite THEN WriteNotPermitted
                     ELSE PathNotAllowed
        IN  /\ fault => (callsStore /\ faults < MaxFaults)
            /\ faults' = IF fault THEN faults + 1 ELSE faults
            /\ calls' = IF callsStore
                        THEN Append(calls, Call(kind, rollback.path,
                                    rollback.originalData, "rollback", idx, ok))
                        ELSE calls
            /\ store' = IF callsStore /\ ok
                        THEN ApplyCall(store, kind, rollback.path,
                                       rollback.originalData)
                        ELSE store
            /\ results' = MarkRollback(results, ops[idx].path, ok, error)
            /\ rbLog' = Append(rbLog, [idx |-> idx, ok |-> ok])
            /\ rbIdx' = AfterRollbackStep(rbIdx, ok)
    /\ UNCHANGED <<store0, permRead, permWrite, ops, pc, planned, i,
                   completedOperations, failMode, ret>>
    /\ UNCHANGED dryVars

FailureReturnRethrown(summary) ==
    [kind |-> "throw", success |-> FALSE, summary |-> NoSummary]

\* What the two catch blocks of executeTransactionInternal hand back once
\* executeRollback is over: a TransactionResult with success=false.
FailureReturn(summary) ==
    [kind |-> "result", success |-> FALSE, summary |-> summary]

\* executeRollback has returned: the failure return of
\* executeTransactionInternal (inner catch or outer catch).
FinishRollback ==
    /\ pc = "rollback"
    /\ rbIdx = 0
    /\ pc' = "done"
    /\ ret' = FailureReturn(Summary(Len(ops), Len(completedOperations),
                                    IF failMode = "inner" THEN 1
                                    ELSE Len(ops) - Len(completedOperations),
                                    Len(completedOperations)))
    /\ UNCHANGED <<store, store0, permRead, permWrite, ops, planned, i,
                   results, completedOperations, rbIdx, failMode, calls,
                   rbLog, faults>>
    /\ UNCHANGED dryVars

Next ==
    \/ PlanStep
    \/ BeginInternal
    \/ ForwardStep
    \/ CommitAll
    \/ RollbackStep
    \/ FinishRollback

Spec == Init /\ [][Next]_vars

\* ---- termination -----------------------------------------------------------
\* One commit-mode call on batches that name one allowed path and the
\* rejected path.
InitLive ==
    /\ Init
    /\ \A k \in 1..Len(ops) : ops[k].path # K2
    /\ store[K2] = NotFound

\* Every step of a call is the continuation of an awaited store call (or
\* runs without waiting); provided each store call returns, the step that
\* is enabled is eventually taken.
SpecLive == InitLive /\ [][Next]_vars /\ WF_vars(Next)

\* ---- round-trip specification ---------------------------------------------
\* Batches of Create operations only, over three allowed paths and two
\* payloads, on any pre-transaction content of those paths.
RoundTripPaths == {K1, K2, K3}
RoundTripPayloads == {"new", "other"}

CreateBatches ==
    UNION {[1..n -> [type : {"create"}, path : RoundTripPaths,
                     data : RoundTripPayloads]] : n \in 0..MaxOps}

InitRoundTrip ==
    /\ store \in {s \in [AllPaths -> {NotFound} \cup
                                      {Wrap(d) : d \in OldPayloads}] :
                     s[SysInvalid] = NotFound}
    /\ store0 = store
    /\ permRead \in BOOLEAN
    /\ permWrite \in BOOLEAN
    /\ ops \in CreateBatches
    /\ pc = "plan"
    /\ planned = <<>>
    /\ i = 1
    /\ results = <<>>
    /\ completedOperations = <<>>
    /\ rbIdx = 0
    /\ failMode = "none"
    /\ ret = NoReturn
    /\ calls = <<>>
    /\ rbLog = <<>>
    /\ faults = 0
    /\ entry = "executeTransaction"
    /\ dryRun = FALSE
    /\ simulatedState = NoSimulatedState
    /\ validationErrors = <<>>
    /\ dryRet = NoDryRunReturn
    /\ succeededItems = 0
    /\ stage = "single"
    /\ other = NoOther
    /\ alone = NoAlone

SpecRoundTrip == InitRoundTrip /\ [][Next]_vars

\* ---- dry run: single-operation simulation ----------------------------------
DataRequired == "Data is required for create/update operations"
InvalidData == "Invalid data: must be a non-null object"
CannotCreateExists == "Cannot create: secret already exists at this path"
CannotUpdateMissing == "Cannot update: secret does not exist at this path"
SecretDoesNotExist == "Secret does not exist at the specified path"
CreateAfterCreate ==
    "Cannot create: secret would already exist due to previous operation in this transaction"
DeleteAfterDelete ==
    "Cannot delete: secret would not exist due to previous operation in this transaction"
UpdateAfterDelete ==
    "Cannot update: secret would not exist due to previous operation in this transaction"
UnknownValidationError == "Unknown validation error"

\* `Failed to check existing data: ${error.message}`
FailedToCheck(message) ==
    CASE message = ReadNotPermitted ->
            "Failed to check existing data: Read operations are not permitted"
      [] message = PathNotAllowed ->
            "Failed to check existing data: Access to path is not allowed"
      [] message = StoreError ->
            "Failed to check existing data: store error"

\* A DryRunResult.  validationErrors is a sequence; the empty sequence
\* stands for undefined (the code never stores an empty array).
DryRunResult(wouldSucceed, errors, pathExists, existingData) ==
    [wouldSucceed |-> wouldSucceed, validationErrors |-> errors,
     pathExists |-> pathExists, existingData |-> existingData]

\* a payload that is truthy but not an object (a string, a number)
NotAnObject == "not an object"

\* !data || typeof data !== "object"
InvalidPayload(data) == data \in {Undefined, NotAnObject}

\* VaultClient.simulateWriteSecret, given the outcome rd of its readSecret
\* call.
simulateWriteSecret(data, rd) ==
    LET invalid == IF InvalidPayload(data) THEN <<InvalidData>> ELSE <<>>
        unread == IF rd.kind = "throw" THEN <<FailedToCheck(rd.error)>>
                  ELSE <<>>
        errors == invalid \o unread
    IN  DryRunResult(errors = <<>>, errors, rd.kind = "secret",
                     IF rd.kind = "secret" THEN rd.data ELSE Undefined)

\* VaultClient.simulateDeleteSecret, given the outcome rd of its readSecret
\* call.
simulateDeleteSecret(rd) ==
    CASE rd.kind = "secret" -> DryRunResult(TRUE, <<>>, TRUE, rd.data)
      [] rd.kind = "null" ->
            DryRunResult(FALSE, <<SecretDoesNotExist>>, FALSE, Undefined)
      [] rd.kind = "throw" ->
            DryRunResult(FALSE, <<FailedToCheck(rd.error)>>, FALSE, Undefined)

simulateAccessErrorNone(operation) == NoError

\* The permission and path checks that open simulateOperation: the message
\* of the error they throw, or NoError.
simulateAccessError(operation) ==
    IF operation.type # "read" /\ ~permWrite THEN WriteNotPermitted
    ELSE IF operation.type = "read" /\ ~permRead THEN ReadNotPermitted
    ELSE IF ~isPathAllowed(operation.path) THEN PathNotAllowed
    ELSE NoError

\* simulateOperation reaches a readSecret call for this operation
simulateReads(operation) ==
    /\ simulateAccessError(operation) = NoError
    /\ operation.type \in {"create", "update"} => operation.data # Undefined

DryRunOperationResult(path, sim) ==
    [path |-> path, success |-> sim.wouldSucceed,
     wouldSucceed |-> sim.wouldSucceed,
     validationErrors |-> sim.validationErrors, data |-> sim]

\* VaultClient.simulateOperation, given the outcome rd of its readSecret
\* call (made only when simulateReads holds).
simulateOperation(operation, rd) ==
    LET type == operation.type
        denied == simulateAccessError(operation)
        written == simulateWriteSecret(operation.data, rd)
        sim ==
            IF denied # NoError
            THEN DryRunResult(FALSE, <<denied>>, FALSE, Undefined)
            ELSE CASE type \in {"create", "update"} ->
                    IF operation.data = Undefined
                    THEN DryRunResult(FALSE, <<DataRequired>>, FALSE, Undefined)
                    ELSE IF type = "create" /\ written.pathExists
                    THEN [written EXCEPT
                            !.wouldSucceed = FALSE,
                            !.validationErrors = @ \o <<CannotCreateExists>>]
                    ELSE IF type = "update" /\ ~written.pathExists
                    THEN [written EXCEPT
                            !.wouldSucceed = FALSE,
                            !.validationErrors = @ \o <<CannotUpdateMissing>>]
                    ELSE written
                 [] type = "delete" -> simulateDeleteSecret(rd)
                 [] type = "read" ->
                    IF rd.kind = "throw"
                    THEN DryRunResult(FALSE, <<rd.error>>, FALSE, Undefined)
                    ELSE DryRunResult(TRUE, <<>>, rd.kind = "secret",
                                      IF rd.kind = "secret" THEN rd.data
                                      ELSE Undefined)
    IN  DryRunOperationResult(operation.path, sim)

\* ---- dry run: transaction simulation ----------------------------------------
simulateOperationWithoutState(operation, state, rd) ==
    simulateOperation(operation, rd)

\* VaultClient.simulateOperationWithState: the base result of
\* simulateOperation, re-judged when the simulated state has an entry for
\* the path.  The re-judging branches that predict success leave the
\* result's success and top-level validationErrors as the base result had
\* them.
simulateOperationWithState(operation, state, rd) ==
    LET type == operation.type
        baseResult == simulateOperation(operation, rd)
        stateInfo == state[operation.path]
        succeed(pathExists, existingData) ==
            [baseResult EXCEPT
                !.wouldSucceed = TRUE,
                !.data = [@ EXCEPT !.pathExists = pathExists,
                                   !.wouldSucceed = TRUE,
                                   !.existingData = existingData,
                                   !.validationErrors = <<>>]]
        fail(pathExists, message) ==
            [baseResult EXCEPT
                !.wouldSucceed = FALSE,
                !.validationErrors = <<message>>,
                !.data = [@ EXCEPT !.pathExists = pathExists,
                                   !.wouldSucceed = FALSE,
                                   !.validationErrors = <<message>>]]
    IN  IF stateInfo = NoStateInfo THEN baseResult
        ELSE IF type = "create" /\ stateInfo.operation = "delete"
        THEN succeed(FALSE, baseResult.data.existingData)
        ELSE IF type = "create" /\ stateInfo.operation = "create"
        THEN fail(TRUE, CreateAfterCreate)
        ELSE IF type = "update" /\ stateInfo.operation = "create"
        THEN succeed(TRUE, stateInfo.data)
        ELSE IF type = "delete"
                /\ stateInfo.operation \in {"create", "update"}
        THEN succeed(TRUE, stateInfo.data)
        ELSE IF type = "delete" /\ stateInfo.operation = "delete"
        THEN fail(FALSE, DeleteAfterDelete)
        ELSE IF type = "update" /\ stateInfo.operation = "delete"
        THEN fail(FALSE, UpdateAfterDelete)
        ELSE baseResult

\* VaultClient.updateSimulatedState: an operation predicted to succeed, of
\* any type, becomes the entry of its path.
updateSimulatedState(state, operation, result) ==
    IF result.wouldSucceed
    THEN [state EXCEPT ![operation.path] =
            [operation |-> operation.type, data |-> operation.data]]
    ELSE state

DryRunStoreCallForwarded(type) == StoreCallOf(type)

\* The store call a simulation issues for an operation: the client.read of
\* readSecret, whatever the operation's type.
DryRunStoreCall(type) == "read"

\* One iteration of the loop of executeTransactionDryRun.
SimulateStep ==
    /\ pc = "dryrun"
    /\ entry = "executeTransaction"
    /\ i <= Len(ops)
    /\ \E fault \in BOOLEAN :
        LET operation == ops[i]
            rd == readSecret(operation.path, fault)
            called == simulateReads(operation) /\ rd.called
            kind == DryRunStoreCall(operation.type)
            simulationResult ==
                simulateOperationWithState(operation, simulatedState, rd)
        IN  /\ fault => (called /\ faults < MaxFaults)
            /\ faults' = IF fault THEN faults + 1 ELSE faults
            /\ calls' = IF called
                        THEN Append(calls, Call(kind, operation.path,
                                    operation.data, "dryrun", i,
                                    rd.kind # "throw"))
                        ELSE calls
            /\ store' = IF called /\ ~fault
                        THEN ApplyCall(store, kind, operation.path,
                                       operation.data)
                        ELSE store
            /\ results' = Append(results, simulationResult)
            /\ validationErrors' =
                IF ~simulationResult.wouldSucceed
                THEN Append(validationErrors,
                            [path |-> operation.path,
                             errors |->
                                IF simulationResult.validationErrors = <<>>
                                THEN <<UnknownValidationError>>
                                ELSE simulationResult.validationErrors])
                ELSE validationErrors
            /\ simulatedState' = updateSimulatedState(simulatedState,
                                                      operation,
                                                      simulationResult)
            /\ i' = i + 1
    /\ UNCHANGED <<store0, permRead, permWrite, ops, pc, planned,
                   completedOperations, rbIdx, failMode, ret, rbLog, entry,
                   dryRun, dryRet, succeededItems>>
    /\ UNCHANGED callerVars

\* results.filter(r => r.<field>).length
RECURSIVE CountTrue(_, _)
CountTrue(flags, n) ==
    IF n = 0 THEN 0
    ELSE CountTrue(flags, n - 1) + (IF flags[n] THEN 1 ELSE 0)

DryRunTransactionResultFromSuccess(operations, rs, errors) ==
    LET wouldSucceedCount ==
            CountTrue([k \in 1..Len(rs) |-> rs[k].success], Len(rs))
        wouldFailCount == Len(rs) - wouldSucceedCount
    IN  [kind |-> "result", success |-> wouldFailCount = 0,
         results |-> rs, wouldSucceed |-> wouldFailCount = 0,
         validationSummary |->
            [totalOperations |-> Len(operations),
             wouldSucceed |-> wouldSucceedCount,
             wouldFail |-> wouldFailCount,
             validationErrors |-> errors],
         summary |-> Summary(Len(operations), wouldSucceedCount,
                             wouldFailCount, 0)]

\* The DryRunTransactionResult that executeTransactionDryRun builds after
\* its loop.
DryRunTransactionResult(operations, rs, errors) ==
    LET wouldSucceedCount ==
            CountTrue([k \in 1..Len(rs) |-> rs[k].wouldSucceed], Len(rs))
        wouldFailCount == Len(rs) - wouldSucceedCount
    IN  [kind |-> "result", success |-> wouldFailCount = 0,
         results |-> rs, wouldSucceed |-> wouldFailCount = 0,
         validationSummary |->
            [totalOperations |-> Len(operations),
             wouldSucceed |-> wouldSucceedCount,
             wouldFail |-> wouldFailCount,
             validationErrors |-> errors],
         summary |-> Summary(Len(operations), wouldSucceedCount,
                             wouldFailCount, 0)]

\* The loop of executeTransactionDryRun is over: the call returns.
DryRunReturn ==
    /\ pc = "dryrun"
    /\ entry = "executeTransaction"
    /\ i > Len(ops)
    /\ dryRet' = DryRunTransactionResult(ops, results, validationErrors)
    /\ pc' = "simulated"
    /\ UNCHANGED <<store, store0, permRead, permWrite, ops, planned, i,
                   results, completedOperations, rbIdx, failMode, ret, calls,
                   rbLog, faults, entry, dryRun, simulatedState,
                   validationErrors, succeededItems>>
    /\ UNCHANGED callerVars

\* ---- writeSecret and deleteSecret ---------------------------------------------
\* What writeSecret and deleteSecret hand back: nothing (commit mode) or a
\* DryRunResult.
VoidReturn == [kind |-> "result", success |-> TRUE, summary |-> NoSummary]
ThrowReturn == [kind |-> "throw", success |-> FALSE, summary |-> NoSummary]

\* VaultClient.writeSecret(path, data, dryRun) and
\* VaultClient.deleteSecret(path, dryRun), called on ops[1].
WriteOrDeleteSecret ==
    /\ pc = "call"
    /\ entry \in {"writeSecret", "deleteSecret"}
    /\ \E fault \in BOOLEAN :
        LET item == ops[1]
            type == IF entry = "writeSecret" THEN "update" ELSE "delete"
            checked == permWrite /\ isPathAllowed(item.path)
            rd == readSecret(item.path, fault)
            called == checked /\ (dryRun => rd.called)
            kind == IF dryRun THEN DryRunStoreCall(type) ELSE StoreCallOf(type)
            ok == called /\ ~fault
        IN  /\ fault => (called /\ faults < MaxFaults)
            /\ faults' = IF fault THEN faults + 1 ELSE faults
            /\ calls' = IF called
                        THEN Append(calls, Call(kind, item.path, item.data,
                                                "single", 1, ok))
                        ELSE calls
            /\ store' = IF ok
                        THEN ApplyCall(store, kind, item.path, item.data)
                        ELSE store
            /\ IF ~checked
               THEN /\ ret' = ThrowReturn
                    /\ dryRet' = dryRet
               ELSE IF dryRun
               THEN /\ dryRet' =
                        [kind |-> "result",
                         result |-> IF entry = "writeSecret"
                                    THEN simulateWriteSecret(item.data, rd)
                                    ELSE simulateDeleteSecret(rd)]
                    /\ ret' = ret
               ELSE /\ ret' = IF fault THEN ThrowReturn ELSE VoidReturn
                    /\ dryRet' = dryRet
    /\ pc' = "done"
    /\ UNCHANGED <<store0, permRead, permWrite, ops, planned, i, results,
                   completedOperations, rbIdx, failMode, rbLog, entry, dryRun,
                   simulatedState, validationErrors, succeededItems>>
    /\ UNCHANGED callerVars

\* ---- bulk operations --------------------------------------------------------
BulkEntries == {"bulkReadSecrets", "bulkWriteSecrets", "bulkDeleteSecrets"}

\* checkReadPermission / checkWritePermission at the head of a bulk call
BulkBegin ==
    /\ pc = "call"
    /\ entry \in BulkEntries
    /\ IF (IF entry = "bulkReadSecrets" THEN permRead ELSE permWrite)
       THEN pc' = "bulk" /\ ret' = ret
       ELSE pc' = "done" /\ ret' = ThrowReturn
    /\ UNCHANGED <<store, store0, permRead, permWrite, ops, planned, i,
                   results, completedOperations, rbIdx, failMode, calls,
                   rbLog, faults, entry, dryRun, simulatedState,
                   validationErrors, dryRet, succeededItems>>
    /\ UNCHANGED callerVars

BulkOperationResult(path, success, error) ==
    [path |-> path, success |-> success, error |-> error]

NextAfterBulkItemAbort(ok, k, n) == IF ok THEN k + 1 ELSE n + 1

\* The loop index after an item of a bulk call: the item's failure is
\* recorded (continue, or the catch inside the loop body) and the loop goes
\* on to the next item.
NextAfterBulkItem(ok, k, n) == k + 1

\* The body of the loop of bulkReadSecrets, bulkWriteSecrets or
\* bulkDeleteSecrets for one item: whether a store call is issued, which
\* one, and the outcome pushed to results.
BulkItem(name, dry, item, fault) ==
    LET type == CASE name = "bulkReadSecrets" -> "read"
                  [] name = "bulkWriteSecrets" -> "update"
                  [] name = "bulkDeleteSecrets" -> "delete"
        allowed == isPathAllowed(item.path)
        rd == readSecret(item.path, fault)
        \* operation.data || {}
        data == IF item.data = Undefined THEN EmptyObject ELSE item.data
        dryRunResult == IF name = "bulkWriteSecrets"
                        THEN simulateWriteSecret(data, rd)
                        ELSE simulateDeleteSecret(rd)
        missing == type = "read" /\ store[item.path] = NotFound
    IN  [called |-> allowed /\ (dry => rd.called),
         kind |-> IF dry THEN DryRunStoreCall(type) ELSE StoreCallOf(type),
         answered |-> ~fault /\ ~missing,
         ok |-> IF ~allowed THEN FALSE
                ELSE IF dry THEN dryRunResult.wouldSucceed
                ELSE ~fault /\ ~missing,
         error |-> IF ~allowed THEN <<PathNotAllowed>>
                   ELSE IF dry THEN dryRunResult.validationErrors
                   ELSE IF fault THEN <<StoreError>>
                   ELSE IF missing THEN <<StoreNotFound>>
                   ELSE <<>>]

\* One iteration of the loop of bulkReadSecrets, bulkWriteSecrets or
\* bulkDeleteSecrets.
BulkStep ==
    /\ pc = "bulk"
    /\ entry \in BulkEntries
    /\ i <= Len(ops)
    /\ \E fault \in BOOLEAN :
        LET item == ops[i]
            out == BulkItem(entry, dryRun, item, fault)
        IN  /\ fault => (out.called /\ faults < MaxFaults)
            /\ faults' = IF fault THEN faults + 1 ELSE faults
            /\ calls' = IF out.called
                        THEN Append(calls, Call(out.kind, item.path, item.data,
                                                "bulk", i, out.answered))
                        ELSE calls
            /\ store' = IF out.called /\ ~fault
                        THEN ApplyCall(store, out.kind, item.path, item.data)
                        ELSE store
            /\ results' = Append(results,
                                 BulkOperationResult(item.path, out.ok,
                                                     out.error))
            /\ succeededItems' = IF out.ok THEN succeededItems + 1
                                 ELSE succeededItems
            /\ i' = NextAfterBulkItem(out.ok, i, Len(ops))
    /\ UNCHANGED <<store0, permRead, permWrite, ops, pc, planned,
                   completedOperations, rbIdx, failMode, ret, rbLog, entry,
                   dryRun, simulatedState, validationErrors, dryRet>>
    /\ UNCHANGED callerVars

BulkOperationSummary(total, n) ==
    [kind |-> "result", success |-> n = total,
     summary |-> [total |-> total, succeeded |-> n, failed |-> total - n]]

\* The loop of the bulk call is over: the call returns its summary.
BulkReturn ==
    /\ pc = "bulk"
    /\ entry \in BulkEntries
    /\ i > Len(ops)
    /\ ret' = BulkOperationSummary(Len(ops), succeededItems)
    /\ pc' = "done"
    /\ UNCHANGED <<store, store0, permRead, permWrite, ops, planned, i,
                   results, completedOperations, rbIdx, failMode, calls,
                   rbLog, faults, entry, dryRun, simulatedState,
                   validationErrors, dryRet, succeededItems>>
    /\ UNCHANGED callerVars

\* ---- entry-point specification ------------------------------------------------
\* One call of a dry-run entry point: executeTransaction, writeSecret,
\* deleteSecret, bulkWriteSecrets or bulkDeleteSecrets with dryRun=true.
BulkPayloads == {"new", "other"}

\* the items of a bulk call, or the one path (and payload) of a single call
Items(name) ==
    IF name \in {"writeSecret", "bulkWriteSecrets"}
    THEN [path : Paths, data : BulkPayloads]
    ELSE [path : Paths, data : {Undefined}]

\* simulateOperation refuses every operation on the rejected path by the
\* same check, before it looks at the type: Create stands for the four.
DryRunBatches ==
    {batch \in Batches :
        \A j \in 1..Len(batch) :
            batch[j].path = SysInvalid => batch[j].type = "create"}

Arguments(name) ==
    CASE name = "executeTransaction" -> DryRunBatches
      [] name \in {"writeSecret", "deleteSecret"} -> [1..1 -> Items(name)]
      [] name \in BulkEntries ->
            {items \in UNION {[1..n -> Items(name)] : n \in 0..MaxOps} :
                FirstUseOrder(items)}

\* the state at the call of one of the entry points `names`
InitEntry(names) ==
    /\ store \in StoreStates
    /\ store0 = store
    /\ permRead \in BOOLEAN
    /\ permWrite \in BOOLEAN
    /\ entry \in names
    /\ dryRun \in CASE entry = "executeTransaction" -> {TRUE}
                    [] entry = "bulkReadSecrets" -> {FALSE}
                    [] OTHER -> BOOLEAN
    /\ ops \in Arguments(entry)
    /\ pc = IF entry = "executeTransaction" THEN "dryrun" ELSE "call"
    /\ planned = <<>>
    /\ i = 1
    /\ results = <<>>
    /\ completedOperations = <<>>
    /\ rbIdx = 0
    /\ failMode = "none"
    /\ ret = NoReturn
    /\ calls = <<>>
    /\ rbLog = <<>>
    /\ faults = 0
    /\ simulatedState = NoSimulatedState
    /\ validationErrors = <<>>
    /\ dryRet = NoDryRunReturn
    /\ succeededItems = 0
    /\ stage = "single"
    /\ other = NoOther
    /\ alone = NoAlone

\* a call with dryRun=true
InitCalls ==
    /\ InitEntry({"executeTransaction", "writeSecret", "deleteSecret",
                  "bulkWriteSecrets", "bulkDeleteSecrets"})
    /\ dryRun

NextCalls ==
    \/ SimulateStep
    \/ DryRunReturn
    \/ WriteOrDeleteSecret
    \/ BulkBegin
    \/ BulkStep
    \/ BulkReturn

SpecCalls == InitCalls /\ [][NextCalls]_vars

\* ---- bulk specification --------------------------------------------------------
\* One bulk call, in either mode.
InitBulk == InitEntry(BulkEntries)

NextBulk ==
    \/ BulkBegin
    \/ BulkStep
    \/ BulkReturn

SpecBulk == InitBulk /\ [][NextBulk]_vars

\* ---- dry run of batches with missing or malformed payloads -----------------------
\* One transaction dry-run on a single path, in which a Create or Update may
\* come without data or with data that is not an object.
PayloadOperation ==
    [type : {"create", "update"}, path : {K1},
     data : NewPayloads \cup {Undefined, NotAnObject}]
    \cup [type : {"delete", "read"}, path : {K1}, data : {Undefined}]

PayloadBatches == UNION {[1..n -> PayloadOperation] : n \in 0..MaxOps}

InitPayloads ==
    /\ store \in StoreStates
    /\ store0 = store
    /\ permRead \in BOOLEAN
    /\ permWrite \in BOOLEAN
    /\ entry = "executeTransaction"
    /\ dryRun = TRUE
    /\ ops \in PayloadBatches
    /\ pc = "dryrun"
    /\ planned = <<>>
    /\ i = 1
    /\ results = <<>>
    /\ completedOperations = <<>>
    /\ rbIdx = 0
    /\ failMode = "none"
    /\ ret = NoReturn
    /\ calls = <<>>
    /\ rbLog = <<>>
    /\ faults = 0
    /\ simulatedState = NoSimulatedState
    /\ validationErrors = <<>>
    /\ dryRet = NoDryRunReturn
    /\ succeededItems = 0
    /\ stage = "single"
    /\ other = NoOther
    /\ alone = NoAlone

NextPayloads ==
    \/ SimulateStep
    \/ DryRunReturn

SpecPayloads == InitPayloads /\ [][NextPayloads]_vars

\* ---- simulate, then execute ---------------------------------------------------
\* The caller that received the dry-run result submits the same batch in
\* commit mode: executeTransaction(operations, false).
ExecuteForReal ==
    /\ pc = "simulated"
    /\ entry = "executeTransaction"
    /\ dryRun
    /\ dryRun' = FALSE
    /\ pc' = "plan"
    /\ i' = 1
    /\ results' = <<>>
    /\ UNCHANGED <<store, store0, permRead, permWrite, ops, planned,
                   completedOperations, rbIdx, failMode, ret, calls, rbLog,
                   faults, entry, simulatedState, validationErrors, dryRet,
                   succeededItems>>
    /\ UNCHANGED callerVars

InitSimulate ==
    /\ InitCalls
    /\ entry = "executeTransaction"

NextSimulateThenExecute ==
    \/ SimulateStep
    \/ DryRunReturn
    \/ ExecuteForReal
    \/ Next

SpecSimulateThenExecute == InitSimulate /\ [][NextSimulateThenExecute]_vars

\* ---- two callers ---------------------------------------------------------------
\* Two calls issued by different callers on disjoint paths.  The first
\* caller issues any call on secret/k1 and the rejected path; the second
\* issues a bulk call on secret/k3.  Each call first runs alone from the
\* initial store, then both run from the initial store with their store
\* calls interleaved in every order.  No transport error is injected (the
\* budget starts exhausted), so that a call alone has one outcome.
OtherItems(name) ==
    IF name = "bulkWriteSecrets"
    THEN [path : {K3}, data : {"other"}]
    ELSE [path : {K3}, data : {Undefined}]

\* the second caller's call: a bulk call with one item
OtherCalls ==
    {[entry |-> name, items |-> <<item>>, i |-> 1, results |-> <<>>,
      succeeded |-> 0, pc |-> "call", ret |-> NoReturn] :
        name \in BulkEntries,
        item \in [path : {K3}, data : {"other", Undefined}]}

CallerArguments(name) ==
    {a \in Arguments(name) :
        /\ Len(a) < MaxOps
        /\ \A k \in 1..Len(a) : a[k].path # K2}

\* where the call of an entry point starts
InitialPc(name, dry) ==
    IF name = "executeTransaction"
    THEN (IF dry THEN "dryrun" ELSE "plan")
    ELSE "call"

Terminated == pc \in {"done", "simulated"}

InitTwoCallers ==
    /\ store \in {s \in [AllPaths -> {NotFound} \cup
                                      {Wrap(d) : d \in OldPayloads}] :
                     s[K2] = NotFound /\ s[SysInvalid] = NotFound}
    /\ store0 = store
    /\ permRead \in BOOLEAN
    /\ permWrite \in BOOLEAN
    /\ entry \in {"executeTransaction", "writeSecret", "deleteSecret"}
                 \cup BulkEntries
    /\ dryRun \in (IF entry = "bulkReadSecrets" THEN {FALSE} ELSE BOOLEAN)
    /\ ops \in CallerArguments(entry)
    /\ pc = InitialPc(entry, dryRun)
    /\ planned = <<>>
    /\ i = 1
    /\ results = <<>>
    /\ completedOperations = <<>>
    /\ rbIdx = 0
    /\ failMode = "none"
    /\ ret = NoReturn
    /\ calls = <<>>
    /\ rbLog = <<>>
    /\ faults = MaxFaults
    /\ simulatedState = NoSimulatedState
    /\ validationErrors = <<>>
    /\ dryRet = NoDryRunReturn
    /\ succeededItems = 0
    /\ stage = "alone"
    /\ other \in {o \in OtherCalls :
                    \A k \in 1..Len(o.items) :
                        o.items[k] \in OtherItems(o.entry)}
    /\ alone = NoAlone

\* A step of the first caller's call.
CallerStep ==
    /\ stage \in {"alone", "together"}
    /\ (Next \/ NextCalls)

\* checkReadPermission / checkWritePermission at the head of the second
\* caller's bulk call
OtherBulkBegin ==
    /\ stage \in {"otherAlone", "together"}
    /\ other.pc = "call"
    /\ other' = IF (IF other.entry = "bulkReadSecrets" THEN permRead
                    ELSE permWrite)
                THEN [other EXCEPT !.pc = "bulk"]
                ELSE [other EXCEPT !.pc = "done", !.ret = ThrowReturn]
    /\ UNCHANGED <<store, store0, permRead, permWrite, ops, pc, planned, i,
                   results, completedOperations, rbIdx, failMode, ret, calls,
                   rbLog, faults, entry, dryRun, simulatedState,
                   validationErrors, dryRet, succeededItems, stage, alone>>

\* One iteration of the loop of the second caller's bulk call.
OtherBulkStep ==
    /\ stage \in {"otherAlone", "together"}
    /\ other.pc = "bulk"
    /\ other.i <= Len(other.items)
    /\ LET item == other.items[other.i]
           out == BulkItem(other.entry, FALSE, item, FALSE)
       IN  /\ calls' = IF out.called
                       THEN Append(calls, Call(out.kind, item.path, item.data,
                                               "other", other.i, out.answered))
                       ELSE calls
           /\ store' = IF out.called
                       THEN ApplyCall(store, out.kind, item.path, item.data)
                       ELSE store
           /\ other' = [other EXCEPT
                          !.results = Append(@, BulkOperationResult(
                                                   item.path, out.ok, out.error)),
                          !.succeeded = IF out.ok THEN @ + 1 ELSE @,
                          !.i = NextAfterBulkItem(out.ok, @, Len(other.items))]
    /\ UNCHANGED <<store0, permRead, permWrite, ops, pc, planned, i, results,
                   completedOperations, rbIdx, failMode, ret, rbLog, faults,
                   entry, dryRun, simulatedState, validationErrors, dryRet,
                   succeededItems, stage, alone>>

\* The loop of the second caller's bulk call is over: the call returns.
OtherBulkReturn ==
    /\ stage \in {"otherAlone", "together"}
    /\ other.pc = "bulk"
    /\ other.i > Len(other.items)
    /\ other' = [other EXCEPT
                    !.pc = "done",
                    !.ret = BulkOperationSummary(Len(other.items),
                                                 other.succeeded)]
    /\ UNCHANGED <<store, store0, permRead, permWrite, ops, pc, planned, i,
                   results, completedOperations, rbIdx, failMode, ret, calls,
                   rbLog, faults, entry, dryRun, simulatedState,
                   validationErrors, dryRet, succeededItems, stage, alone>>

\* The first caller's call has run alone: its outcome is recorded, the
\* store is put back and the second caller's call runs alone.
OtherRunsAlone ==
    /\ stage = "alone"
    /\ Terminated
    /\ stage' = "otherAlone"
    /\ alone' = [alone EXCEPT !.ret = ret, !.dryRet = dryRet,
                              !.results = results, !.store = store]
    /\ store' = store0
    /\ pc' = InitialPc(entry, dryRun)
    /\ planned' = <<>>
    /\ i' = 1
    /\ results' = <<>>
    /\ completedOperations' = <<>>
    /\ rbIdx' = 0
    /\ failMode' = "none"
    /\ ret' = NoReturn
    /\ calls' = <<>>
    /\ rbLog' = <<>>
    /\ simulatedState' = NoSimulatedState
    /\ validationErrors' = <<>>
    /\ dryRet' = NoDryRunReturn
    /\ succeededItems' = 0
    /\ UNCHANGED <<store0, permRead, permWrite, ops, faults, entry, dryRun,
                   other>>

\* The second caller's call has run alone: its outcome is recorded, the
\* store is put back and both calls are issued concurrently.
BothRun ==
    /\ stage = "otherAlone"
    /\ other.pc = "done"
    /\ stage' = "together"
    /\ alone' = [alone EXCEPT !.otherRet = other.ret,
                              !.otherResults = other.results,
                              !.otherStore = store]
    /\ other' = [other EXCEPT !.i = 1, !.results = <<>>, !.succeeded = 0,
                              !.pc = "call", !.ret = NoReturn]
    /\ store' = store0
    /\ calls' = <<>>
    /\ UNCHANGED <<store0, permRead, permWrite, ops, pc, planned, i, results,
                   completedOperations, rbIdx, failMode, ret, rbLog, faults,
                   entry, dryRun, simulatedState, validationErrors, dryRet,
                   succeededItems>>

NextTwoCallers ==
    \/ CallerStep
    \/ OtherBulkBegin
    \/ OtherBulkStep
    \/ OtherBulkReturn
    \/ OtherRunsAlone
    \/ BothRun

SpecTwoCallers == InitTwoCallers /\ [][NextTwoCallers]_vars

\* ---- two dry runs ----------------------------------------------------------------
\* Two executeTransactionDryRun calls with the same operations (on one
\* path) against the same store, their reads interleaved in every order.
\* Each call has its own results, validationErrors and simulatedState (the
\* locals of the call); the second call keeps them in `other`.  No
\* transport error is injected (the budget starts exhausted).
SamePathBatches ==
    {batch \in DryRunBatches :
        \A k \in 1..Len(batch) : batch[k].path = K1}

OtherDryRun(operations) ==
    [entry |-> "executeTransaction", items |-> operations, i |-> 1,
     results |-> <<>>, validationErrors |-> <<>>,
     simulatedState |-> NoSimulatedState, pc |-> "dryrun",
     dryRet |-> NoDryRunReturn]

InitTwoDryRuns ==
    /\ store \in {s \in StoreStates : s[K2] = NotFound}
    /\ store0 = store
    /\ permRead \in BOOLEAN
    /\ permWrite \in BOOLEAN
    /\ entry = "executeTransaction"
    /\ dryRun = TRUE
    /\ ops \in SamePathBatches
    /\ pc = "dryrun"
    /\ planned = <<>>
    /\ i = 1
    /\ results = <<>>
    /\ completedOperations = <<>>
    /\ rbIdx = 0
    /\ failMode = "none"
    /\ ret = NoReturn
    /\ calls = <<>>
    /\ rbLog = <<>>
    /\ faults = MaxFaults
    /\ simulatedState = NoSimulatedState
    /\ validationErrors = <<>>
    /\ dryRet = NoDryRunReturn
    /\ succeededItems = 0
    /\ stage = "dryRuns"
    /\ other = OtherDryRun(ops)
    /\ alone = NoAlone

CallSimulatedStateShared(own, shared) == shared

\* The simulated state the loop of a call works on: the Map that this call
\* created (own), not that of any other call (shared).
CallSimulatedState(own, shared) == own

\* One iteration of the loop of the second executeTransactionDryRun call.
OtherSimulateStep ==
    /\ stage = "dryRuns"
    /\ other.pc = "dryrun"
    /\ other.i <= Len(other.items)
    /\ LET operation == other.items[other.i]
           rd == readSecret(operation.path, FALSE)
           called == simulateReads(operation) /\ rd.called
           state == CallSimulatedState(other.simulatedState, simulatedState)
           simulationResult ==
               simulateOperationWithState(operation, state, rd)
       IN  /\ calls' = IF called
                       THEN Append(calls,
                                Call(DryRunStoreCall(operation.type),
                                     operation.path, operation.data, "other",
                                     other.i, rd.kind # "throw"))
                       ELSE calls
           /\ other' = [other EXCEPT
                !.results = Append(@, simulationResult),
                !.validationErrors =
                    IF ~simulationResult.wouldSucceed
                    THEN Append(@,
                            [path |-> operation.path,
                             errors |->
                                IF simulationResult.validationErrors = <<>>
                                THEN <<UnknownValidationError>>
                                ELSE simulationResult.validationErrors])
                    ELSE @,
                !.simulatedState =
                    updateSimulatedState(state, operation, simulationResult),
                !.i = @ + 1]
    /\ UNCHANGED <<store, store0, permRead, permWrite, ops, pc, planned, i,
                   results, completedOperations, rbIdx, failMode, ret, rbLog,
                   faults, entry, dryRun, simulatedState, validationErrors,
                   dryRet, succeededItems, stage, alone>>

\* The loop of the second executeTransactionDryRun call is over: it returns.
OtherDryRunReturn ==
    /\ stage = "dryRuns"
    /\ other.pc = "dryrun"
    /\ other.i > Len(other.items)
    /\ other' = [other EXCEPT
                    !.pc = "simulated",
                    !.dryRet = DryRunTransactionResult(other.items,
                                    other.results, other.validationErrors)]
    /\ UNCHANGED <<store, store0, permRead, permWrite, ops, pc, planned, i,
                   results, completedOperations, rbIdx, failMode, ret, calls,
                   rbLog, faults, entry, dryRun, simulatedState,
                   validationErrors, dryRet, succeededItems, stage, alone>>

NextTwoDryRuns ==
    \/ SimulateStep
    \/ DryRunReturn
    \/ OtherSimulateStep
    \/ OtherDryRunReturn

SpecTwoDryRuns == InitTwoDryRuns /\ [][NextTwoDryRuns]_vars

\* ---- two transactions ----------------------------------------------------------
\* Two executeTransaction calls issued by different callers against the
\* same store, both naming secret/k1.  A call runs until one of its awaited
\* store calls; at that point either call may be the one that goes on.  The
\* variables ops .. rbLog hold the locals of the call that is running,
\* `other` holds the locals of the call that waits.  The first caller
\* writes the payload "new", the second the payload "other".  No transport
\* error is injected (the budget starts exhausted).
OtherOperation ==
    [type : {"create", "update"}, path : {K1}, data : {"other"}]
    \cup [type : {"create"}, path : {SysInvalid}, data : {"other"}]

OtherBatches ==
    UNION {[1..n -> OtherOperation] : n \in 1..(MaxOps - 1)}

\* the locals of a call of executeTransaction that has not started
WaitingCall(who, operations) ==
    [who |-> who, ops |-> operations, pc |-> "plan", planned |-> <<>>,
     i |-> 1, results |-> <<>>, completedOperations |-> <<>>, rbIdx |-> 0,
     failMode |-> "none", ret |-> NoReturn, rbLog |-> <<>>]

InitTwoTransactions ==
    /\ store \in {s \in StoreStates : s[K2] = NotFound}
    /\ store0 = store
    /\ permRead \in BOOLEAN
    /\ permWrite \in BOOLEAN
    /\ ops \in {b \in Batches :
                  /\ Len(b) < MaxOps
                  /\ \A k \in 1..Len(b) : b[k].path # K2}
    /\ pc = "plan"
    /\ planned = <<>>
    /\ i = 1
    /\ results = <<>>
    /\ completedOperations = <<>>
    /\ rbIdx = 0
    /\ failMode = "none"
    /\ ret = NoReturn
    /\ calls = <<>>
    /\ rbLog = <<>>
    /\ faults = MaxFaults
    /\ entry = "executeTransaction"
    /\ dryRun = FALSE
    /\ simulatedState = NoSimulatedState
    /\ validationErrors = <<>>
    /\ dryRet = NoDryRunReturn
    /\ succeededItems = 0
    /\ stage = "concurrent"
    /\ other \in {WaitingCall(2, b) : b \in OtherBatches}
    /\ alone = NoAlone

\* A step of the call that is running.
RunningStep ==
    /\ stage = "concurrent"
    /\ Next

\* The running call waits for the store (or has returned) and the other
\* call is resumed.
ResumeOther ==
    /\ stage = "concurrent"
    /\ other.pc # "done"
    /\ other' = [who |-> 3 - other.who, ops |-> ops, pc |-> pc,
                 planned |-> planned, i |-> i, results |-> results,
                 completedOperations |-> completedOperations,
                 rbIdx |-> rbIdx, failMode |-> failMode, ret |-> ret,
                 rbLog |-> rbLog]
    /\ ops' = other.ops
    /\ pc' = other.pc
    /\ planned' = other.planned
    /\ i' = other.i
    /\ results' = other.results
    /\ completedOperations' = other.completedOperations
    /\ rbIdx' = other.rbIdx
    /\ failMode' = other.failMode
    /\ ret' = other.ret
    /\ rbLog' = other.rbLog
    /\ UNCHANGED <<store, store0, permRead, permWrite, calls, faults, entry,
                   dryRun, simulatedState, validationErrors, dryRet,
                   succeededItems, stage, alone>>

NextTwoTransactions ==
    \/ RunningStep
    \/ ResumeOther

SpecTwoTransactions == InitTwoTransactions /\ [][NextTwoTransactions]_vars

\* ---- observations used by the properties ----------------------------------
Returned == pc = "done" /\ ret.kind = "result"
Failed == Returned /\ ~ret.success
Committed == Returned /\ ret.success

ForwardCalls == SelectSeq(calls, LAMBDA c : c.phase = "forward")
RollbackCalls == SelectSeq(calls, LAMBDA c : c.phase = "rollback")
\* the forward operations that succeeded, in commit order
CommitOrder == SelectSeq(calls, LAMBDA c : c.phase = "forward" /\ c.ok)

AllRollbackStepsOk == \A k \in 1..Len(rbLog) : rbLog[k].ok

\* rejected by the allowed-path predicate of the configuration
PathRejected(path) ==
    \A k \in 1..Len(allowedPaths) : ~startsWith(path, allowedPaths[k])

\* the operation targets a rejected path or needs a disabled permission
Denied(operation) ==
    \/ PathRejected(operation.path)
    \/ (operation.type = "read" /\ ~permRead)
    \/ (operation.type # "read" /\ ~permWrite)

\* ---- properties ---------------------------------------------------------

\* C1: when forward operation k is the first to fail and every rollback
\* step succeeds, afterwards every path targeted by a Create among
\* operations 1..k-1 is absent, every path targeted by an Update among
\* operations 1..k-1 holds its pre-transaction payload, and no store write
\* or delete was issued for operations k+1..N.
C1_PrefixUndone ==
    (Failed /\ AllRollbackStepsOk) =>
        /\ \A j \in 1..Len(CommitOrder) :
            /\ ops[j].type = "create" => store[ops[j].path] = NotFound
            /\ ops[j].type = "update" =>
                    store[ops[j].path] = store0[ops[j].path]
        /\ \A c \in 1..Len(calls) :
            (calls[c].phase = "forward" /\ calls[c].kind \in {"write", "delete"})
                => calls[c].idx <= Len(CommitOrder) + 1

\* C2: all-or-nothing: after a failed transaction in which every rollback
\* step succeeded, every path of the store holds exactly what it held
\* before the transaction started, for every batch shape.
C2_AllOrNothing ==
    (Failed /\ AllRollbackStepsOk) => store = store0

\* C3: the call returns success=true if and only if every forward
\* operation of the batch succeeded; in that case no rollback step is
\* issued and the summary is total=N, succeeded=N, failed=0, rolledBack=0.
C3_SuccessIffAllForwardSucceeded ==
    pc = "done" =>
        /\ Committed <=>
            \A j \in 1..Len(ops) :
                \E c \in 1..Len(calls) :
                    /\ calls[c].phase = "forward"
                    /\ calls[c].idx = j
                    /\ calls[c].ok
        /\ Committed =>
            /\ rbLog = <<>>
            /\ RollbackCalls = <<>>
            /\ ret.summary = [total |-> Len(ops), succeeded |-> Len(ops),
                              failed |-> 0, rolledBack |-> 0]

C3_Witness ==
    /\ Committed
    /\ Len(ops) >= 2
    /\ \E j \in 1..Len(ops) : ops[j].type = "delete"

\* C4: rollback steps are processed in the exact reverse of the order in
\* which the forward operations committed, whether or not individual
\* rollback steps fail.
C4_RollbackIsLIFO ==
    /\ Len(rbLog) <= Len(CommitOrder)
    /\ \A k \in 1..Len(rbLog) :
        rbLog[k].idx = CommitOrder[Len(CommitOrder) - k + 1].idx

C4_Witness ==
    /\ pc = "done"
    /\ Len(CommitOrder) = 2
    /\ Len(rbLog) = 2
    /\ ~rbLog[1].ok
    /\ rbLog[1].idx = 2
    /\ rbLog[2].idx = 1

\* C5: forward operations are dispatched to the store one at a time in
\* list order, and after the first forward failure no later forward
\* operation of the batch is dispatched.
C5_ForwardSequentialFailFast ==
    /\ \A k \in 1..Len(ForwardCalls) : ForwardCalls[k].idx = k
    /\ \A k \in 1..(Len(ForwardCalls) - 1) : ForwardCalls[k].ok
    /\ ((\E r \in 1..Len(results) : ~results[r].success) \/ failMode # "none")
            => pc \in {"rollback", "done"}
    /\ \A a, b \in 1..Len(calls) :
        (calls[a].phase = "rollback" /\ calls[b].phase = "forward") => b < a

C5_Witness ==
    /\ pc = "done"
    /\ Len(ops) = 3
    /\ Len(ForwardCalls) = 2
    /\ ~ForwardCalls[2].ok

\* C6: a failing rollback step does not stop the unwind: the rollback step
\* of every older committed operation is still attempted.
C6_UnwindContinuesAfterFailure ==
    /\ \A k \in 1..Len(rbLog) :
        (~rbLog[k].ok /\ pc = "done") =>
            \A j \in 1..Len(CommitOrder) :
                CommitOrder[j].idx < rbLog[k].idx =>
                    \E m \in (k + 1)..Len(rbLog) :
                        rbLog[m].idx = CommitOrder[j].idx
    /\ Failed => Len(rbLog) = Len(CommitOrder)

C6_Witness ==
    /\ Failed
    /\ Len(rbLog) = 2
    /\ ~rbLog[1].ok
    /\ rbLog[2].ok
    /\ \E c \in 1..Len(RollbackCalls) :
        RollbackCalls[c].idx = 1 /\ RollbackCalls[c].ok

\* C7: round trip: N Create operations on distinct paths whose writes all
\* succeed leave each of the N paths existing with exactly its submitted
\* payload and change no other path.
C7_CreateRoundTrip ==
    (/\ Committed
     /\ \A j \in 1..Len(ops) : ops[j].type = "create"
     /\ \A j, k \in 1..Len(ops) : j # k => ops[j].path # ops[k].path)
    =>
        /\ \A j \in 1..Len(ops) :
            /\ store[ops[j].path].found
            /\ Unwrap(store[ops[j].path]) = ops[j].data
        /\ \A p \in AllPaths :
            (\A j \in 1..Len(ops) : ops[j].path # p) => store[p] = store0[p]

C7_Witness ==
    /\ Committed
    /\ Len(ops) = 3
    /\ \A j, k \in 1..Len(ops) : j # k => ops[j].path # ops[k].path
    /\ ops[1].data # ops[2].data
    /\ store0[ops[1].path].found

\* C8 (as stated): if any operation of the batch targets a rejected path or
\* needs a disabled permission, no forward store call of the batch is
\* issued at all.
C8_DeniedBatchIssuesNothing ==
    (\E j \in 1..Len(ops) : Denied(ops[j])) => ForwardCalls = <<>>

\* C8 (amended): no forward store call is issued for an operation that
\* targets a rejected path or needs a disabled permission, nor for any
\* operation listed after it, and the transaction does not commit.
C8_NoForwardCallFromDeniedOn ==
    \A j \in 1..Len(ops) :
        Denied(ops[j]) =>
            /\ \A c \in 1..Len(calls) :
                calls[c].phase = "forward" => calls[c].idx < j
            /\ ~Committed

C8_Witness ==
    /\ Failed
    /\ Len(ops) = 3
    /\ Denied(ops[3])
    /\ Len(ForwardCalls) = 2
    /\ Len(rbLog) = 2

\* C9: a batch that contains a Delete of a path absent before the
\* transaction fails with a thrown rollback-planning error, and no forward
\* operation of the batch is issued to the store.
C9_DeleteOfMissingAbortsPlanning ==
    (\E j \in 1..Len(ops) :
        ops[j].type = "delete" /\ ~store0[ops[j].path].found)
    =>
        /\ pc \in {"plan", "done"}
        /\ ForwardCalls = <<>>
        /\ results = <<>>
        /\ pc = "done" => ret.kind = "throw"

C9_Witness ==
    /\ pc = "done"
    /\ ret.kind = "throw"
    /\ Len(ops) = 3
    /\ ops[1].type = "create"
    /\ ops[2].type = "delete"
    /\ ~PathRejected(ops[2].path)
    /\ ~store0[ops[2].path].found
    /\ permRead
    /\ faults = 0

\* C10: for any failed transaction of N operations whose first failing
\* forward operation is at position k, whatever the cause of the failure,
\* the summary is total=N, succeeded=k-1, failed=1, rolledBack=k-1.
C10_FailureSummary ==
    Failed =>
        ret.summary = [total |-> Len(ops), succeeded |-> Len(CommitOrder),
                       failed |-> 1, rolledBack |-> Len(CommitOrder)]

\* C11: once rollback planning has succeeded (every operation has its
\* planned rollback), the commit-mode call never throws: whatever forward
\* call or rollback step fails, the call ends by returning a
\* TransactionResult.
C11_NoThrowAfterPlanning ==
    /\ pc \in {"forward", "rollback"} => ret.kind = "none"
    /\ (pc = "done" /\ Len(planned) = Len(ops)) => ret.kind = "result"
    /\ (\/ \E c \in 1..Len(calls) :
            calls[c].phase \in {"forward", "rollback"} /\ ~calls[c].ok
        \/ \E k \in 1..Len(rbLog) : ~rbLog[k].ok
        \/ failMode # "none")
            => ret.kind # "throw"

C11_Witness ==
    /\ pc = "done"
    /\ ret.kind = "result"
    /\ ~ret.success
    /\ \E c \in 1..Len(calls) : calls[c].phase = "forward" /\ ~calls[c].ok
    /\ \E k \in 1..Len(rbLog) : ~rbLog[k].ok
    /\ \E r \in 1..Len(results) : results[r].rollbackExecuted = "false"

\* C12: no dry-run entry point issues a mutating store call: during and
\* after executeTransaction with dryRun=true, writeSecret or deleteSecret
\* with dryRun=true, and bulkWriteSecrets or bulkDeleteSecrets with
\* dryRun=true, every call issued to the store is a read and every path of
\* the store holds what it held before the call.
C12_DryRunNeverMutates ==
    dryRun =>
        /\ store = store0
        /\ \A c \in 1..Len(calls) : calls[c].kind = "read"

C12_Witness ==
    /\ dryRun
    /\ entry = "executeTransaction"
    /\ pc = "simulated"
    /\ dryRet.wouldSucceed
    /\ Len(ops) = 3
    /\ Len(calls) = 3
    /\ \E j \in 1..3 : ops[j].type = "create"
    /\ \E j \in 1..3 : ops[j].type = "delete"

\* the latest operation before k on the path of operation k that the dry
\* run predicted to succeed (0 when there is none)
PreviousOnPath(k) ==
    LET earlier == {j \in 1..(k - 1) :
                        /\ ops[j].path = ops[k].path
                        /\ results[j].wouldSucceed}
    IN  IF earlier = {} THEN 0
        ELSE CHOOSE j \in earlier : \A m \in earlier : m <= j

\* C13: in a transaction dry-run, an operation whose path was changed by
\* the latest predicted-successful operation on that path is judged
\* against the in-batch state: Update or Delete after Create is predicted
\* to succeed, Delete after Update is predicted to succeed, Create after
\* Delete is predicted to succeed; Create after Create, Delete after
\* Delete and Update after Delete are predicted to fail, each with the
\* validation error that names the previous operation of the transaction.
C13_JudgedAgainstInBatchState ==
    (entry = "executeTransaction" /\ dryRun) =>
        \A k \in 1..Len(results) :
            LET j == PreviousOnPath(k)
                before == IF j = 0 THEN "none" ELSE ops[j].type
                type == ops[k].type
                failsWith(message) ==
                    /\ ~results[k].wouldSucceed
                    /\ results[k].validationErrors = <<message>>
                    /\ \E e \in 1..Len(validationErrors) :
                        validationErrors[e] =
                            [path |-> ops[k].path, errors |-> <<message>>]
            IN  /\ (before = "create" /\ type \in {"update", "delete"})
                        => results[k].wouldSucceed
                /\ (before = "update" /\ type = "delete")
                        => results[k].wouldSucceed
                /\ (before = "delete" /\ type = "create")
                        => results[k].wouldSucceed
                /\ (before = "create" /\ type = "create")
                        => failsWith(CreateAfterCreate)
                /\ (before = "delete" /\ type = "delete")
                        => failsWith(DeleteAfterDelete)
                /\ (before = "delete" /\ type = "update")
                        => failsWith(UpdateAfterDelete)

C13_Witness ==
    /\ entry = "executeTransaction"
    /\ pc = "simulated"
    /\ Len(ops) = 3
    /\ ops[1].type = "create"
    /\ ops[2].type = "create"
    /\ ops[3].type = "update"
    /\ ops[1].path = ops[2].path
    /\ ops[2].path = ops[3].path
    /\ ~store0[ops[1].path].found
    /\ results[1].wouldSucceed
    /\ ~results[2].wouldSucceed
    /\ results[3].wouldSucceed

\* the positions of the operations the dry run predicted to fail, in order
PredictedToFail(rs) ==
    SelectSeq([k \in 1..Len(rs) |-> [at |-> k, path |-> rs[k].path,
                                      wouldSucceed |-> rs[k].wouldSucceed]],
              LAMBDA r : ~r.wouldSucceed)

\* C14: in the result of a transaction dry-run, the whole-batch
\* wouldSucceed is true if and only if every per-operation wouldSucceed is
\* true; validationSummary.wouldSucceed + validationSummary.wouldFail =
\* totalOperations = number of results; and
\* validationSummary.validationErrors has exactly one entry for each
\* operation predicted to fail, in order (so an empty batch is predicted to
\* succeed).
C14_DryRunSummary ==
    (entry = "executeTransaction" /\ pc = "simulated") =>
        LET summary == dryRet.validationSummary
            failing == PredictedToFail(dryRet.results)
        IN  /\ dryRet.wouldSucceed <=>
                \A k \in 1..Len(dryRet.results) :
                    dryRet.results[k].wouldSucceed
            /\ summary.wouldSucceed + summary.wouldFail
                    = summary.totalOperations
            /\ summary.totalOperations = Len(dryRet.results)
            /\ summary.totalOperations = Len(ops)
            /\ summary.wouldFail = Len(failing)
            /\ Len(summary.validationErrors) = Len(failing)
            /\ \A e \in 1..Len(failing) :
                /\ summary.validationErrors[e].path = failing[e].path
                /\ summary.validationErrors[e].errors # <<>>
            /\ ops = <<>> => dryRet.wouldSucceed

C14_Witness ==
    /\ entry = "executeTransaction"
    /\ pc = "simulated"
    /\ Len(ops) = 3
    /\ ~dryRet.wouldSucceed
    /\ dryRet.validationSummary.wouldSucceed = 2
    /\ dryRet.validationSummary.wouldFail = 1
    /\ dryRet.results[3].wouldSucceed
    /\ ~dryRet.results[3].success

\* the access errors an operation is refused with
AccessErrors(operation) ==
    (IF operation.type = "read" /\ ~permRead
     THEN {ReadNotPermitted} ELSE {})
    \cup (IF operation.type # "read" /\ ~permWrite
          THEN {WriteNotPermitted} ELSE {})
    \cup (IF PathRejected(operation.path) THEN {PathNotAllowed} ELSE {})

\* C15: in a transaction dry-run, an operation on a rejected path, or of a
\* kind whose permission is disabled, is predicted to fail with the access
\* error as its validation error; the call does not throw and goes on to
\* simulate every other operation, so that results holds exactly one entry
\* per submitted operation, in submission order.
C15_AccessErrorsArePredictions ==
    (entry = "executeTransaction" /\ dryRun) =>
        /\ ret.kind # "throw"
        /\ Len(results) = i - 1
        /\ \A k \in 1..Len(results) :
            /\ results[k].path = ops[k].path
            /\ Denied(ops[k]) =>
                /\ ~results[k].wouldSucceed
                /\ \E e \in AccessErrors(ops[k]) :
                    /\ results[k].validationErrors = <<e>>
                    /\ \E v \in 1..Len(validationErrors) :
                        validationErrors[v] =
                            [path |-> ops[k].path, errors |-> <<e>>]
        /\ pc = "simulated" =>
            /\ dryRet.kind = "result"
            /\ Len(dryRet.results) = Len(ops)
            /\ \A k \in 1..Len(ops) :
                dryRet.results[k].path = ops[k].path

C15_Witness ==
    /\ entry = "executeTransaction"
    /\ pc = "simulated"
    /\ permRead
    /\ permWrite
    /\ Len(ops) = 3
    /\ PathRejected(ops[2].path)
    /\ dryRet.results[1].wouldSucceed
    /\ ~dryRet.results[2].wouldSucceed
    /\ dryRet.results[3].wouldSucceed

\* C16: dry-run soundness: when the dry run of a batch predicted
\* wouldSucceed=true, the same batch executed in commit mode on the same
\* store, with no store call failing for transport reasons, commits
\* (success=true, nothing thrown).
C16_DryRunSound ==
    (/\ pc = "done"
     /\ dryRet.kind = "result"
     /\ dryRet.wouldSucceed
     /\ faults = 0)
    => Committed

\* C17: dry-run completeness: when the dry run of a batch predicted
\* wouldSucceed=false (no store call having failed for transport
\* reasons), the same batch executed in commit mode on the same store
\* does not commit: it returns success=false or throws.
C17_DryRunComplete ==
    (/\ pc = "done"
     /\ dryRet.kind = "result"
     /\ ~dryRet.wouldSucceed
     /\ faults = 0)
    => ~Committed

\* the bulk call's permission (read for bulkReadSecrets, write otherwise)
BulkPermitted == IF entry = "bulkReadSecrets" THEN permRead ELSE permWrite

\* C18: a bulk call never aborts early: a failing item (rejected path or
\* store error) is recorded and every following item is still applied, so
\* that results holds exactly one outcome per item in submission order,
\* summary.total is the item count, succeeded + failed = total, and
\* success is true if and only if failed = 0.
C18_BulkNeverAbortsEarly ==
    entry \in BulkEntries =>
        /\ \A k \in 1..Len(results) : results[k].path = ops[k].path
        /\ pc = "bulk" => Len(results) = i - 1
        /\ (pc = "done" /\ BulkPermitted) =>
            /\ ret.kind = "result"
            /\ Len(results) = Len(ops)
            /\ ret.summary.total = Len(ops)
            /\ ret.summary.succeeded + ret.summary.failed = ret.summary.total
            /\ ret.summary.succeeded =
                    Cardinality({k \in 1..Len(results) : results[k].success})
            /\ ret.success <=> ret.summary.failed = 0
            /\ \A k \in 1..Len(ops) :
                (~PathRejected(ops[k].path) /\ ~dryRun) =>
                    \E c \in 1..Len(calls) : calls[c].idx = k

C18_Witness ==
    /\ entry = "bulkWriteSecrets"
    /\ ~dryRun
    /\ pc = "done"
    /\ ret.kind = "result"
    /\ Len(ops) = 3
    /\ Len(results) = 3
    /\ ~results[1].success
    /\ PathRejected(ops[1].path)
    /\ results[2].success
    /\ ~results[3].success
    /\ ret.summary = [total |-> 3, succeeded |-> 1, failed |-> 2]

\* the items of the bulk call on path p whose outcome so far is a success
SucceededOn(p) ==
    {k \in 1..Len(results) : results[k].success /\ ops[k].path = p}

\* C19: bulk partial failure without compensation: in a bulk write, no
\* store call is issued for an item on a rejected path; every other item
\* whose store write succeeded is persisted with its submitted payload and
\* stays persisted, no failure of a later item undoing it (when several
\* items write the same path, which cannot all persist, the path holds the
\* payload of the last one that succeeded); a path no item wrote keeps its
\* content; and the summary counts exactly the rejected or failed items as
\* failed.
C19_BulkWriteNoCompensation ==
    (entry = "bulkWriteSecrets" /\ ~dryRun) =>
        /\ \A c \in 1..Len(calls) :
            /\ ~PathRejected(calls[c].path)
            /\ calls[c].kind = "write"
        /\ \A p \in AllPaths :
            IF SucceededOn(p) = {}
            THEN store[p] = store0[p]
            ELSE LET last == CHOOSE k \in SucceededOn(p) :
                                \A m \in SucceededOn(p) : m <= k
                 IN  /\ store[p].found
                     /\ Unwrap(store[p]) = ops[last].data
        /\ (pc = "done" /\ ret.kind = "result") =>
            ret.summary.failed =
                Cardinality({k \in 1..Len(ops) :
                    \/ PathRejected(ops[k].path)
                    \/ \E c \in 1..Len(calls) :
                        calls[c].idx = k /\ ~calls[c].ok})

C19_Witness ==
    /\ entry = "bulkWriteSecrets"
    /\ ~dryRun
    /\ pc = "done"
    /\ ret.kind = "result"
    /\ Len(ops) = 3
    /\ PathRejected(ops[2].path)
    /\ ops[1].path # ops[3].path
    /\ ops[1].data # ops[3].data
    /\ store0[ops[1].path].found
    /\ Unwrap(store[ops[1].path]) = ops[1].data
    /\ Unwrap(store[ops[3].path]) = ops[3].data
    /\ ~store[ops[2].path].found
    /\ ret.summary = [total |-> 3, succeeded |-> 2, failed |-> 1]

\* C20: two calls issued concurrently by different callers on disjoint
\* paths do not interfere: under every interleaving of their store calls,
\* each call returns the same result, and leaves the same values on its
\* own paths, as when it runs alone from the same store.
C20_DisjointCallsDoNotInterfere ==
    stage = "together" =>
        /\ Terminated =>
            /\ ret = alone.ret
            /\ dryRet = alone.dryRet
            /\ results = alone.results
            /\ \A k \in 1..Len(ops) :
                store[ops[k].path] = alone.store[ops[k].path]
        /\ other.pc = "done" =>
            /\ other.ret = alone.otherRet
            /\ other.results = alone.otherResults
            /\ \A k \in 1..Len(other.items) :
                store[other.items[k].path]
                    = alone.otherStore[other.items[k].path]

\* a store write of the second caller lands between two forward writes of
\* a transaction of the first caller that then commits
C20_Witness ==
    /\ stage = "together"
    /\ Terminated
    /\ other.pc = "done"
    /\ entry = "executeTransaction"
    /\ ~dryRun
    /\ Committed
    /\ other.ret.kind = "result"
    /\ other.ret.success
    /\ \E a, b, c \in 1..Len(calls) :
        /\ a < b
        /\ b < c
        /\ calls[a].phase = "forward"
        /\ calls[a].kind = "write"
        /\ calls[b].phase = "other"
        /\ calls[b].kind = "write"
        /\ calls[c].phase = "forward"

\* the rollback steps processed for operation k
RolledBackAt(k) == {m \in 1..Len(rbLog) : rbLog[m].idx = k}

\* the operations whose forward call succeeded
CommittedSet == {CommitOrder[c].idx : c \in 1..Len(CommitOrder)}

\* C21: when a forward operation fails, a rollback step is attempted for
\* exactly the operations that had succeeded before it (the prefix of the
\* batch that precedes the failing operation), for each of them exactly
\* once, and for no other operation: neither the failing operation nor any
\* operation listed after it.
C21_RollbackExactlyCommittedPrefix ==
    /\ \A k \in 1..Len(ops) :
        /\ Cardinality(RolledBackAt(k)) <= 1
        /\ k \notin CommittedSet => RolledBackAt(k) = {}
        /\ Cardinality({c \in 1..Len(calls) :
                calls[c].phase = "rollback" /\ calls[c].idx = k})
                    <= Cardinality(RolledBackAt(k))
    /\ Failed =>
        /\ Len(CommitOrder) < Len(ops)
        /\ CommittedSet = 1..Len(CommitOrder)
        /\ \A k \in 1..Len(ops) :
            Cardinality(RolledBackAt(k)) = IF k \in CommittedSet THEN 1 ELSE 0

C21_Witness ==
    /\ Failed
    /\ Len(ops) = 3
    /\ CommittedSet = {1}
    /\ ops[1].type = "update"
    /\ ops[2].type = "read"
    /\ ~PathRejected(ops[3].path)
    /\ Len(rbLog) = 1
    /\ rbLog[1] = [idx |-> 1, ok |-> TRUE]
    /\ \E c \in 1..Len(calls) :
        calls[c].phase = "rollback" /\ calls[c].idx = 1 /\ calls[c].ok

\* the readSecret call that plans operation k threw: read permission
\* disabled, path not allowed, or transport error
PlanningReadFailed(k) ==
    \/ ~permRead
    \/ PathRejected(ops[k].path)
    \/ \E c \in 1..Len(calls) :
        calls[c].phase = "plan" /\ calls[c].idx = k /\ ~calls[c].ok

\* C22: for every Update of the batch, the planned rollback is an Update
\* on the same path whose originalData is the payload the path held before
\* the transaction; and when the planning read of an Update fails, the
\* Update is never planned (with any compensating action), no forward
\* operation is issued and the call ends by throwing.
C22_UpdateRollbackRestoresStoredPayload ==
    \A k \in 1..Len(ops) :
        ops[k].type = "update" =>
            /\ k <= Len(planned) =>
                /\ planned[k].type = "update"
                /\ planned[k].path = ops[k].path
                /\ store0[ops[k].path].found =>
                    planned[k].originalData = Unwrap(store0[ops[k].path])
            /\ PlanningReadFailed(k) =>
                /\ k > Len(planned)
                /\ ForwardCalls = <<>>
                /\ pc = "done" => ret.kind = "throw"

PlanCalls == SelectSeq(calls, LAMBDA c : c.phase = "plan")

\* C23: in commit mode the planning reads of the batch are issued in list
\* order and all of them complete before the first forward store call: when
\* forward execution begins every operation is planned, no planning read
\* follows a forward or rollback call, and every planned rollback holds
\* what the path held before the transaction (not what an earlier
\* operation of the batch writes there).
C23_PlanningPrecedesForward ==
    /\ \A a, b \in 1..Len(PlanCalls) : a < b => PlanCalls[a].idx < PlanCalls[b].idx
    /\ \A a, b \in 1..Len(calls) :
        (calls[a].phase = "plan" /\ calls[b].phase \in {"forward", "rollback"})
            => a < b
    /\ (pc \in {"forward", "rollback"} \/ ForwardCalls # <<>>) =>
        /\ Len(planned) = Len(ops)
        /\ \A k \in 1..Len(ops) :
            (ops[k].type \in {"update", "delete"} /\ permRead
                /\ ~PathRejected(ops[k].path))
            => \E c \in 1..Len(PlanCalls) :
                    PlanCalls[c].idx = k /\ PlanCalls[c].kind = "read"
    /\ \A k \in 1..Len(planned) :
        planned[k].type \in {"update", "create"} =>
            planned[k].originalData =
                IF store0[ops[k].path].found
                THEN Unwrap(store0[ops[k].path])
                ELSE EmptyObject

C23_Witness ==
    /\ Committed
    /\ Len(ops) = 3
    /\ ops[1].type = "create"
    /\ ops[2].type = "update"
    /\ ops[3].type = "delete"
    /\ ops[1].path = ops[2].path
    /\ ops[3].path # ops[1].path
    /\ ~store0[ops[1].path].found
    /\ planned[2].originalData = EmptyObject
    /\ Len(PlanCalls) = 2
    /\ Len(calls) = 5
    /\ calls[1].phase = "plan"
    /\ calls[2].phase = "plan"
    /\ calls[3].phase = "forward"

\* C24: after a failed transaction, every committed operation has its own
\* result entry marked by its rollback step: rollbackExecuted=false and the
\* rollback error in the entry's error text when the step failed,
\* rollbackExecuted=true when the step succeeded; also when several
\* committed operations of the batch target the same path.
C24_EachCommittedEntryMarked ==
    Failed =>
        \A m \in 1..Len(rbLog) :
            LET k == rbLog[m].idx
            IN  IF rbLog[m].ok
                THEN results[k].rollbackExecuted = "true"
                ELSE /\ results[k].rollbackExecuted = "false"
                     /\ \E e \in 1..Len(results[k].error) :
                            results[k].error[e] = RollbackFailed

\* the planning read of operation k answered that its path holds nothing
PlanningReadFoundNothing(k) ==
    /\ ~store0[ops[k].path].found
    /\ \E c \in 1..Len(calls) :
        calls[c].phase = "plan" /\ calls[c].idx = k /\ calls[c].ok

PreviousChangeOnPath(k) ==
    LET earlier == {j \in 1..(k - 1) :
                        /\ ops[j].path = ops[k].path
                        /\ ops[j].type # "read"
                        /\ results[j].wouldSucceed}
    IN  IF earlier = {} THEN 0
        ELSE CHOOSE j \in earlier : \A m \in earlier : m <= j

\* the effective state of the path of operation k: the store overlaid with
\* the effects of the earlier operations predicted to succeed
EffectivelyPresent(k) ==
    LET j == PreviousChangeOnPath(k)
    IN  IF j = 0 THEN store0[ops[k].path].found
        ELSE ops[j].type \in {"create", "update"}

EffectivePayload(k) ==
    LET j == PreviousChangeOnPath(k)
    IN  IF j = 0
        THEN (IF store0[ops[k].path].found
              THEN Unwrap(store0[ops[k].path]) ELSE Undefined)
        ELSE IF ops[j].type \in {"create", "update"} THEN ops[j].data
        ELSE Undefined

\* the dry run had every permission and every read it issued was answered
DryRunUnhindered ==
    /\ entry = "executeTransaction"
    /\ dryRun
    /\ permRead
    /\ permWrite
    /\ \A c \in 1..Len(calls) : calls[c].ok

\* C26: in a transaction dry-run of any length, a Create with a valid
\* payload on an allowed path is predicted to succeed if and only if its
\* path is absent in the effective state (the store overlaid with the
\* effects of all earlier predicted-successful operations of the batch).
C26_CreateIffEffectivelyAbsent ==
    DryRunUnhindered =>
        \A k \in 1..Len(results) :
            (/\ ops[k].type = "create"
             /\ ops[k].data # Undefined
             /\ ~PathRejected(ops[k].path))
            => (results[k].wouldSucceed <=> ~EffectivelyPresent(k))

\* C27: in a transaction dry-run of any length, an Update with a valid
\* payload, or a Delete, on an allowed path is predicted to succeed if and
\* only if its path is present in the effective state; in particular a
\* second Update after Create then Update on the same path is predicted to
\* succeed.
C27_UpdateDeleteIffEffectivelyPresent ==
    DryRunUnhindered =>
        \A k \in 1..Len(results) :
            (/\ ops[k].type \in {"update", "delete"}
             /\ ops[k].type = "update" => ops[k].data # Undefined
             /\ ~PathRejected(ops[k].path))
            => (results[k].wouldSucceed <=> EffectivelyPresent(k))

\* C28: in a transaction dry-run, a Read on an allowed path is predicted to
\* succeed and reports the effective payload of its path: the payload of
\* the latest earlier predicted-successful Create or Update of the batch
\* on that path, no payload if an earlier predicted-successful Delete
\* removed it, and otherwise the payload in the store.
C28_ReadReportsEffectivePayload ==
    DryRunUnhindered =>
        \A k \in 1..Len(results) :
            (ops[k].type = "read" /\ ~PathRejected(ops[k].path)) =>
                /\ results[k].wouldSucceed
                /\ results[k].data.existingData = EffectivePayload(k)
                /\ results[k].data.pathExists = EffectivelyPresent(k)

\* the latest Create, Update or Delete on path p simulated so far that the
\* dry run predicted to succeed (0 when there is none)
LastChangeOn(p) ==
    LET changes == {j \in 1..Len(results) :
                        /\ ops[j].path = p
                        /\ ops[j].type # "read"
                        /\ results[j].wouldSucceed}
    IN  IF changes = {} THEN 0
        ELSE CHOOSE j \in changes : \A m \in changes : m <= j

\* C29: in a transaction dry-run, only predicted-successful Create, Update
\* and Delete operations change the simulated state: the entry of each
\* path is that of the latest such operation on the path, and a Read
\* leaves it as it was (so that later operations on the path are judged as
\* they would be without the Read).
C29_ReadLeavesSimulatedState ==
    (entry = "executeTransaction" /\ dryRun) =>
        \A p \in AllPaths :
            simulatedState[p] =
                IF LastChangeOn(p) = 0 THEN NoStateInfo
                ELSE [operation |-> ops[LastChangeOn(p)].type,
                      data |-> ops[LastChangeOn(p)].data]

\* C30: in a transaction dry-run, a Create or Update whose payload is
\* missing or is not a non-null map is predicted to fail, with a validation
\* error, at every position of the batch, including when an earlier
\* operation of the same batch created or deleted the same path.
C30_InvalidPayloadPredictedToFail ==
    (entry = "executeTransaction" /\ dryRun) =>
        \A k \in 1..Len(results) :
            (/\ ops[k].type \in {"create", "update"}
             /\ InvalidPayload(ops[k].data))
            =>  /\ ~results[k].wouldSucceed
                /\ results[k].validationErrors # <<>>
                /\ pc = "simulated" => ~dryRet.wouldSucceed

\* C31: each per-operation result of a transaction dry-run reports
\* pathExists and the existing payload as of the effective state at that
\* step (the store overlaid with the earlier predicted-successful
\* operations of the batch), for every operation kind; e.g. an Update that
\* follows an in-batch Update reports the payload set by that Update.
C31_ResultReportsEffectiveState ==
    DryRunUnhindered =>
        \A k \in 1..Len(results) :
            (/\ ~PathRejected(ops[k].path)
             /\ ops[k].type \in {"create", "update"} =>
                    ops[k].data # Undefined)
            =>  /\ results[k].data.pathExists = EffectivelyPresent(k)
                /\ results[k].data.existingData = EffectivePayload(k)

WithinCallBudget ==
    /\ \A k \in 1..Len(ops) :
        /\ Cardinality({c \in 1..Len(calls) :
                calls[c].phase = "forward" /\ calls[c].idx = k}) <= 1
        /\ Cardinality(RolledBackAt(k)) <= 1
    /\ Len(rbLog) <= Len(CommitOrder)
    /\ rbLog # <<>> => pc \in {"rollback", "done"}
    /\ ret.kind = "throw" => (ForwardCalls = <<>> /\ rbLog = <<>>)

\* C33: every commit-mode transaction call terminates provided each store
\* call returns: it issues at most one forward call per operation, then at
\* most one rollback step per committed operation, and eventually returns
\* a result or throws a planning error before any forward call.
C33_CallTerminates ==
    /\ []WithinCallBudget
    /\ <>(pc = "done" /\ ret.kind \in {"result", "throw"})

C33_Witness ==
    /\ pc = "done"
    /\ ret.kind = "result"
    /\ ~ret.success
    /\ Len(ops) = 3
    /\ Len(PlanCalls) = 2
    /\ Len(ForwardCalls) = 3
    /\ Len(rbLog) = 2
    /\ ~rbLog[2].ok

\* ---- two concurrent transactions ----------------------------------------------
\* the payload the last Create or Update of the batch on the path writes
\* (Undefined when the batch's last change of the path is not a write)
LastWritten(operations, p) ==
    LET ks == {k \in 1..Len(operations) :
                  operations[k].path = p /\ operations[k].type # "read"}
        last == CHOOSE k \in ks : \A m \in ks : m <= k
    IN  IF ks = {} \/ operations[last].type = "delete" THEN Undefined
        ELSE operations[last].data

BothReturned ==
    /\ stage = "concurrent"
    /\ pc = "done"
    /\ other.pc = "done"

\* the call with result `good` committed, the call with result `bad`
\* failed and was rolled back
OneCommittedOneFailed(good, bad) ==
    /\ good.kind = "result" /\ good.success
    /\ bad.kind = "result" /\ ~bad.success

\* C34: when two concurrent transactions name the same path and one of them
\* commits while the other fails and is rolled back, the shared path holds,
\* after both have returned, the payload the committed transaction wrote.
C34_CommittedValueSurvives ==
    BothReturned =>
        /\ (OneCommittedOneFailed(ret, other.ret)
            /\ LastWritten(ops, K1) # Undefined)
                => store[K1] = Wrap(LastWritten(ops, K1))
        /\ (OneCommittedOneFailed(other.ret, ret)
            /\ LastWritten(other.ops, K1) # Undefined)
                => store[K1] = Wrap(LastWritten(other.ops, K1))

\* C35: the results of a failed transaction hold one entry per forward
\* operation attempted, in order: success=true for the operations that
\* committed, then success=false with an error for the operation that
\* failed, whatever made it fail (a rejected path included).
C35_OneResultPerAttempt ==
    Failed =>
        LET n == Len(completedOperations)
        IN  /\ Len(results) = n + 1
            /\ \A k \in 1..n :
                /\ results[k].path = ops[k].path
                /\ results[k].success
            /\ results[n + 1].path = ops[n + 1].path
            /\ ~results[n + 1].success
            /\ results[n + 1].error # <<>>

\* C36: in every per-operation result of a transaction dry run, success,
\* wouldSucceed and data.wouldSucceed are equal, and validationErrors is
\* non-empty exactly when wouldSucceed is false.
C36_ResultFieldsAgree ==
    (entry = "executeTransaction" /\ dryRun) =>
        \A k \in 1..Len(results) :
            /\ results[k].success = results[k].wouldSucceed
            /\ results[k].wouldSucceed = results[k].data.wouldSucceed
            /\ (results[k].validationErrors # <<>>)
                    <=> ~results[k].wouldSucceed

\* C37: on a failed transaction summary.rolledBack counts the committed
\* operations whose rollback step was attempted, whether or not the step
\* succeeded: it equals summary.succeeded and the number of committed
\* operations.
C37_RolledBackCountsAttempts ==
    Failed =>
        /\ ret.summary.rolledBack = Len(rbLog)
        /\ ret.summary.rolledBack = ret.summary.succeeded
        /\ ret.summary.rolledBack = Len(CommitOrder)

\* a failed transaction one of whose rollback steps failed
C37_Witness ==
    /\ Failed
    /\ Len(CommitOrder) >= 1
    /\ \E k \in 1..Len(rbLog) : ~rbLog[k].ok
    /\ ret.summary.rolledBack = Len(CommitOrder)

====
